---- MODULE Spec2Model ----
(***************************************************************************)
(* Verification model of claude-code-voice:                                *)
(*   - StreamingTTSManager   (src/unnamed/part_002)                        *)
(*   - AudioPlayer           (src/src/audio-player.ts)                     *)
(*   - VoiceBridgeServer     (src/unnamed/part_003)                        *)
(*   - MessageQueue          (src/unnamed/part_002)                        *)
(*   - AgentManager          (src/src/agent-manager.ts)                    *)
(* and of two of their pure functions, splitIntoSentences and              *)
(* resampleChannel, each applied to inputs drawn from a bounded set.       *)
(* Each object is one variable holding a record of the object's fields,    *)
(* plus the observation logs the properties are stated over.  JavaScript's *)
(* run-to-completion scheduling is kept: an action is one macrotask, and   *)
(* the microtasks it leaves behind run before any other macrotask.         *)
(***************************************************************************)
EXTENDS Integers, Sequences, FiniteSets, TLC

VARIABLES tts, player, bridge, messageQueue, chunker, resampler, agentManager

vars == <<tts, player, bridge, messageQueue, chunker, resampler, agentManager>>

(***************************************************************************)
(* Bounds of the model                                                     *)
(***************************************************************************)
MaxStreams == 2
MaxChunks == 3
MaxItems == 2
MaxSessions == 2
MaxPermissions == 2
MaxUploads == 1
MaxButtons == 1
MaxClockSteps == 1
MaxSubscriptions == 1
MaxMessages == 3

----------------------------------------------------------------------------
(***************************************************************************)
(* StreamingTTSManager                                                     *)
(***************************************************************************)
Streams == 1..MaxStreams
ChunkIdx == 0..(MaxChunks - 1)

\* A TTSQueueItem is named <<stream, index>>: the items of one streamText()
\* call.  Items outlive this.queue: closures of synthesize() and of a
\* suspended playbackLoop() keep referring to them.
NoItem == <<0, 0>>

TtsInit ==
    [ queue            |-> 0,      \* stream whose items are this.queue; 0 is []
      currentIndex     |-> 0,
      isPaused         |-> FALSE,
      isStopped        |-> FALSE,
      state            |-> "idle",
      generatePromises |-> {},     \* indexes of this.queue with a map entry
      n                |-> [s \in Streams |-> 0],
      status           |-> [s \in Streams |-> [i \in ChunkIdx |-> "none"]],
      audioBuffer      |-> [s \in Streams |-> [i \in ChunkIdx |-> FALSE]],
      synth            |-> [s \in Streams |-> [i \in ChunkIdx |-> "none"]],
      pc               |-> [l \in Streams |-> "none"],
      item             |-> [l \in Streams |-> NoItem],
      awaitOrder       |-> <<>>,   \* loops awaiting a promise, oldest first
      microq           |-> <<>>,   \* microtask queue: loops to resume
      browserConnected |-> FALSE,
      started          |-> 0,      \* streamText() calls so far
      stopped          |-> {},     \* streams stop() was called on
      delivered        |-> <<>>,   \* chunks handed to a playback target
      staleAdvance     |-> FALSE,  \* a loop advanced another stream's cursor
      skipped          |-> {},     \* streams skipCurrent() cancelled a chunk of
      onComplete       |-> 0,
      onInterrupt      |-> 0 ]

QLen(st) == IF st.queue = 0 THEN 0 ELSE st.n[st.queue]

StatusOf(st, it) == st.status[it[1]][it[2]]

SetStatus(st, it, v) == [st EXCEPT !.status[it[1]][it[2]] = v]

\* startGenerating(index)
StartGenerating(st, index) ==
    IF index >= QLen(st) THEN st
    ELSE IF st.status[st.queue][index] # "pending" THEN st
    ELSE [st EXCEPT !.status[st.queue][index] = "generating",
                    !.synth[st.queue][index] = "inflight",
                    !.generatePromises = @ \cup {index}]

\* The tail of playbackLoop(): "All done"
LoopExit(st, l) ==
    [st EXCEPT !.state = "idle",
               !.pc[l] = "done",
               !.onComplete = IF st.isStopped THEN @ ELSE @ + 1]

\* await <promise of item it>: a settled promise resumes the loop in a
\* microtask, a pending one when synthesize() settles.
AwaitPromise(st, l, it) ==
    IF st.synth[it[1]][it[2]] = "inflight"
    THEN [st EXCEPT !.pc[l] = "await", !.item[l] = it,
                    !.awaitOrder = Append(@, l)]
    ELSE [st EXCEPT !.pc[l] = "resume", !.item[l] = it,
                    !.microq = Append(@, l)]

\* A hand-over that always takes the local player
DeliverLocally(st, it, target) ==
    [st EXCEPT !.delivered =
        Append(@, [s |-> it[1], i |-> it[2], target |-> "local",
                   late |-> it[1] \in st.stopped,
                   connected |-> st.browserConnected])]

\* The playback target gets chunk it (onBrowserAudio or AudioPlayer.addToQueue);
\* connected records what isBrowserConnected() returned for it
Deliver(st, it, target) ==
    [st EXCEPT !.delivered =
        Append(@, [s |-> it[1], i |-> it[2], target |-> target,
                   late |-> it[1] \in st.stopped,
                   connected |-> st.browserConnected])]

\* this.currentIndex++ by loop l
Advance(st, l) ==
    [st EXCEPT !.currentIndex = @ + 1,
               !.staleAdvance = @ \/ (l # st.queue)]

\* Pre-generation of the next two chunks
PreGenerate(st) ==
    LET a == IF st.currentIndex + 1 < QLen(st)
                  /\ st.status[st.queue][st.currentIndex + 1] = "pending"
             THEN StartGenerating(st, st.currentIndex + 1) ELSE st
    IN IF a.currentIndex + 2 < QLen(a)
             /\ a.status[a.queue][a.currentIndex + 2] = "pending"
       THEN StartGenerating(a, a.currentIndex + 2) ELSE a

RECURSIVE LoopTop(_, _), LoopItem(_, _), LoopPost(_, _)

\* The loop from "if (this.isStopped || item.status === 'cancelled') break"
\* to the end of the iteration, item being st.item[l].
LoopPost(st, l) ==
    LET it == st.item[l] IN
    IF st.isStopped \/ StatusOf(st, it) = "cancelled" THEN LoopExit(st, l)
    ELSE LET g == PreGenerate(st) IN
         IF g.audioBuffer[it[1]][it[2]] /\ StatusOf(g, it) = "ready"
         THEN LET p == SetStatus([g EXCEPT !.state = "playing"], it, "playing") IN
              IF p.browserConnected
              THEN LoopTop(Advance(SetStatus(Deliver(p, it, "browser"),
                                             it, "completed"), l), l)
              ELSE \* await player.addToQueue(...): resumes in a microtask
                   [Deliver(p, it, "local") EXCEPT !.pc[l] = "afterAdd",
                                                    !.microq = Append(@, l)]
         ELSE LoopTop(Advance(g, l), l)

\* After "await player.addToQueue(...)"
LoopAfterAdd(st, l) ==
    LoopTop(Advance(SetStatus(st, st.item[l], "completed"), l), l)

\* "const item = this.queue[this.currentIndex]" and the wait for it
LoopItem(st, l) ==
    IF st.currentIndex >= QLen(st)
    THEN [st EXCEPT !.pc[l] = "crashed"]    \* item is undefined: TypeError
    ELSE LET it == <<st.queue, st.currentIndex>> IN
         IF StatusOf(st, it) \in {"pending", "generating"}
         THEN IF st.currentIndex \in st.generatePromises
              THEN AwaitPromise(st, l, it)
              ELSE LET g == StartGenerating(st, st.currentIndex) IN
                   IF g.currentIndex \in g.generatePromises
                   THEN AwaitPromise(g, l, it)
                   ELSE [g EXCEPT !.pc[l] = "resume", !.item[l] = it,
                                  !.microq = Append(@, l)]
         ELSE LoopPost([st EXCEPT !.item[l] = it], l)

\* The head of the while loop of playbackLoop()
LoopTop(st, l) ==
    IF ~(st.currentIndex < QLen(st) /\ ~st.isStopped) THEN LoopExit(st, l)
    ELSE IF st.isPaused THEN [st EXCEPT !.pc[l] = "sleep"]
    ELSE LoopItem(st, l)

\* After "await this.sleep(100)" in the pause wait
LoopWake(st, l) ==
    IF st.isPaused /\ ~st.isStopped THEN st
    ELSE IF st.isStopped THEN LoopExit(st, l)
    ELSE LoopItem(st, l)

\* stop()
TtsStop(st) ==
    [st EXCEPT !.isStopped = TRUE,
               !.isPaused = FALSE,
               !.status = [s \in Streams |-> [i \in ChunkIdx |->
                    IF s = st.queue /\ i < QLen(st)
                       /\ st.status[s][i] \in {"pending", "generating"}
                    THEN "cancelled" ELSE st.status[s][i]]],
               !.stopped = IF st.queue = 0 THEN @ ELSE @ \cup {st.queue},
               !.queue = 0,
               !.currentIndex = 0,
               !.generatePromises = {},
               !.state = "idle"]

\* streamText(text), the text splitting into k chunks
TtsStreamText(st, k) ==
    LET s  == st.started + 1
        a  == TtsStop(st)
        b  == [a EXCEPT !.queue = s,
                        !.currentIndex = 0,
                        !.isPaused = FALSE,
                        !.isStopped = FALSE,
                        !.generatePromises = {},
                        !.started = s,
                        !.n[s] = k,
                        !.status[s] = [i \in ChunkIdx |->
                                         IF i < k THEN "pending" ELSE "none"],
                        !.state = "generating"]
        c  == StartGenerating(b, 0)
        d  == IF k > 1 THEN StartGenerating(c, 1) ELSE c
    IN LoopTop(d, s)

\* The .then/.catch handlers of synthesize() for item <<s, i>>
TtsSynthSettled(st, s, i, ok) ==
    LET a == IF ok
             THEN IF ~st.isStopped
                  THEN [st EXCEPT !.audioBuffer[s][i] = TRUE,
                                  !.status[s][i] = "ready"]
                  ELSE st
             ELSE [st EXCEPT !.status[s][i] = "cancelled"]
        isW(l) == a.item[l] = <<s, i>> /\ a.pc[l] = "await"
    IN [a EXCEPT !.synth[s][i] = "settled",
                 !.microq = SelectSeq(a.awaitOrder, isW),
                 !.awaitOrder = SelectSeq(a.awaitOrder, LAMBDA l : ~isW(l)),
                 !.pc = [l \in Streams |-> IF isW(l) THEN "resume" ELSE a.pc[l]]]

\* pause()
TtsPause(st) ==
    IF st.state = "playing"
    THEN [st EXCEPT !.isPaused = TRUE, !.state = "paused"] ELSE st

\* resume()
TtsResume(st) ==
    IF st.state = "paused"
    THEN [st EXCEPT !.isPaused = FALSE, !.state = "playing"] ELSE st

\* skipCurrent()
TtsSkipCurrent(st) ==
    IF st.currentIndex < QLen(st) - 1
    THEN [SetStatus(st, <<st.queue, st.currentIndex>>, "cancelled")
             EXCEPT !.skipped = @ \cup {st.queue}]
    ELSE st

\* interrupt()
TtsInterrupt(st) == [TtsStop(st) EXCEPT !.onInterrupt = 1]

(***************************************************************************)
(* Actions of the StreamingTTSManager                                      *)
(***************************************************************************)
Idle(st) == st.microq = <<>>

StreamText ==
    /\ Idle(tts) /\ tts.started < MaxStreams
    /\ \E k \in 1..MaxChunks : tts' = TtsStreamText(tts, k)
    /\ UNCHANGED <<player, bridge, messageQueue, chunker, resampler, agentManager>>

SynthSettled ==
    /\ Idle(tts)
    /\ \E s \in Streams, i \in ChunkIdx, ok \in BOOLEAN :
          /\ tts.synth[s][i] = "inflight"
          /\ tts' = TtsSynthSettled(tts, s, i, ok)
    /\ UNCHANGED <<player, bridge, messageQueue, chunker, resampler, agentManager>>

RunMicrotask ==
    /\ tts.microq # <<>>
    /\ LET l == Head(tts.microq)
           r == [tts EXCEPT !.microq = Tail(@)]
       IN tts' = IF tts.pc[l] = "afterAdd" THEN LoopAfterAdd(r, l)
                 ELSE LoopPost(r, l)
    /\ UNCHANGED <<player, bridge, messageQueue, chunker, resampler, agentManager>>

SleepWake ==
    /\ Idle(tts)
    /\ \E l \in Streams : /\ tts.pc[l] = "sleep"
                          /\ tts' = LoopWake(tts, l)
                          /\ tts' # tts
    /\ UNCHANGED <<player, bridge, messageQueue, chunker, resampler, agentManager>>

Stop ==
    /\ Idle(tts) /\ tts' = TtsStop(tts) /\ tts' # tts
    /\ UNCHANGED <<player, bridge, messageQueue, chunker, resampler, agentManager>>

Interrupt ==
    /\ Idle(tts) /\ tts' = TtsInterrupt(tts) /\ tts' # tts
    /\ UNCHANGED <<player, bridge, messageQueue, chunker, resampler, agentManager>>

Pause ==
    /\ Idle(tts) /\ tts.state = "playing" /\ tts' = TtsPause(tts)
    /\ UNCHANGED <<player, bridge, messageQueue, chunker, resampler, agentManager>>

Resume ==
    /\ Idle(tts) /\ tts.state = "paused" /\ tts' = TtsResume(tts)
    /\ UNCHANGED <<player, bridge, messageQueue, chunker, resampler, agentManager>>

SkipCurrent ==
    /\ Idle(tts) /\ tts.currentIndex < QLen(tts) - 1
    /\ tts' = TtsSkipCurrent(tts) /\ tts' # tts
    /\ UNCHANGED <<player, bridge, messageQueue, chunker, resampler, agentManager>>

BrowserToggle ==
    /\ Idle(tts)
    /\ tts' = [tts EXCEPT !.browserConnected = ~@]
    /\ UNCHANGED <<player, bridge, messageQueue, chunker, resampler, agentManager>>

----------------------------------------------------------------------------
(***************************************************************************)
(* AudioPlayer                                                             *)
(***************************************************************************)
Items == 1..MaxItems

frameSize == 1024

\* bytesPerFrame of playItem(): frameSize samples x channels x 2 bytes
BytesPerFrame(channels) == frameSize * channels * 2

\* What the decoder can return for an item: the channel count and the PCM
\* length in bytes (a last partial frame, exactly one frame, or one full
\* frame and a partial one)
DecoderOutputs ==
    { [channels |-> 1, length |-> 2],
      [channels |-> 1, length |-> BytesPerFrame(1)],
      [channels |-> 2, length |-> BytesPerFrame(2) + 2] }

\* What a caller can pass to setVolume(), in hundredths: silent, and more
\* than full
VolumeInputs == {0, 150}

PlayerInit ==
    [ queue             |-> <<>>,
      status            |-> [k \in Items |-> "none"],
      pcmLength         |-> [k \in Items |-> 0],
      channels          |-> [k \in Items |-> 0],
      currentIndex      |-> 0,
      state             |-> "idle",
      volume            |-> 100,    \* in hundredths: 100 is 1.0
      isMuted           |-> FALSE,
      isProcessingQueue |-> FALSE,
      streamOpen        |-> FALSE,
      currentItem       |-> 0,      \* 0 is null
      pcmOffset         |-> 0,
      writeInterval     |-> 0,      \* the timer handle: the item it was made for
      timers            |-> {},     \* live setInterval timers, by their item
      decoding          |-> {},     \* processQueue() calls awaiting decodeMP3
      awaitingPlay      |-> {},     \* processQueue() calls awaiting playItem
      created           |-> 0,      \* addToQueue() calls so far
      written           |-> [k \in Items |-> 0], \* frames written to the sink
      frames            |-> [k \in Items |-> <<>>], \* ... and what each was
      finished          |-> {},     \* items played to the end of their PCM
      wroteAfterStop    |-> FALSE,  \* ... of an item enqueued before a stop()
      wroteWhileHeld    |-> FALSE,  \* ... between pause() and resume()
      stoppedItems      |-> {},     \* items enqueued before the last stop()
      skippedItems      |-> {},     \* items skip() cancelled, no stop() since
      stopRow           |-> 0,      \* stop() calls in a row, nothing since
      stopHadItems      |-> FALSE,  \* the first of them found unfinished items
      pauseHeld         |-> FALSE,  \* pause() took effect, no resume()/stop() since
      pauseMark         |-> <<0, 0>>, \* currentItem and pcmOffset at that pause()
      onComplete        |-> 0,
      failed            |-> {},     \* items whose decode threw or whose output
                                    \* stream did not open
      drainFired        |-> 0 ]     \* onComplete calls since the last
                                    \* addToQueue() or stop()

PendingIdx(p) == {x \in 1..Len(p.queue) : p.status[p.queue[x]] = "pending"}

FirstPending(p) == CHOOSE x \in PendingIdx(p) : \A y \in PendingIdx(p) : x <= y

\* Anything but stop() ends a row of stop() calls
Touch(p) == [p EXCEPT !.stopRow = 0, !.stopHadItems = FALSE]

\* setState(state)
PlayerSetState(p, state) == [p EXCEPT !.state = state]

\* clearInterval(this.writeInterval); this.writeInterval = null
ClearWriteInterval(p) ==
    [p EXCEPT !.timers = @ \ {p.writeInterval}, !.writeInterval = 0]

\* processQueue() up to its first await
ProcessQueue(p) ==
    IF p.isProcessingQueue THEN p
    ELSE IF PendingIdx(p) = {}
    THEN IF \A x \in 1..Len(p.queue) :
                p.status[p.queue[x]] \in {"completed", "cancelled"}
         THEN [PlayerSetState([p EXCEPT !.isProcessingQueue = FALSE], "idle")
                  EXCEPT !.onComplete = IF @ < MaxItems THEN @ + 1 ELSE @,
                         !.drainFired = IF @ < 2 THEN @ + 1 ELSE @]
         ELSE [p EXCEPT !.isProcessingQueue = FALSE]
    ELSE LET x == FirstPending(p) IN
         [p EXCEPT !.isProcessingQueue = TRUE,
                   !.currentIndex = x - 1,
                   !.status[p.queue[x]] = "decoding",
                   !.decoding = @ \cup {p.queue[x]}]

\* processQueue() after its try/catch
ProcessQueueTail(p) == ProcessQueue([p EXCEPT !.isProcessingQueue = FALSE])

\* resolve() of the promise of playItem(item): the awaiting processQueue()
\* call, if the promise is still pending, goes on
ResolvePlay(p, item) ==
    IF item \in p.awaitingPlay
    THEN ProcessQueueTail([p EXCEPT !.awaitingPlay = @ \ {item}])
    ELSE p

\* initStream(sampleRate, channels), the device opening or not
InitStream(p, opens) == [p EXCEPT !.streamOpen = opens]

\* playItem(item) up to the promise it returns
PlayItem(p, item) ==
    IF ~p.streamOpen
    THEN ProcessQueueTail([p EXCEPT !.status[item] = "completed"])
    ELSE [PlayerSetState(p, "playing")
             EXCEPT !.currentItem = item,
                    !.pcmOffset = 0,
                    !.status[item] = "playing",
                    !.writeInterval = item,
                    !.timers = @ \cup {item},
                    !.awaitingPlay = @ \cup {item}]

\* A processQueue() without its catch: a failure ends the call where it
\* happened
AfterDecodeUncaught(p, item, decoded, out, opens) ==
    LET q == Touch([p EXCEPT !.decoding = @ \ {item}]) IN
    IF ~decoded
    THEN [q EXCEPT !.failed = @ \cup {item}]
    ELSE LET r == InitStream([q EXCEPT !.pcmLength[item] = out.length,
                                       !.channels[item] = out.channels,
                                       !.status[item] = "ready"], opens)
         IN IF ~r.streamOpen
            THEN [r EXCEPT !.failed = @ \cup {item}]
            ELSE PlayItem(r, item)

\* processQueue() from the return of decodeMP3 on: decoded is FALSE when the
\* decoder throws
AfterDecode(p, item, decoded, out, opens) ==
    LET q == Touch([p EXCEPT !.decoding = @ \ {item}]) IN
    IF ~decoded
    THEN ProcessQueueTail([q EXCEPT !.status[item] = "completed",
                                    !.failed = @ \cup {item}])
    ELSE LET r == InitStream([q EXCEPT !.pcmLength[item] = out.length,
                                       !.channels[item] = out.channels,
                                       !.status[item] = "ready"], opens)
         IN IF ~r.streamOpen
            THEN ProcessQueueTail([r EXCEPT !.status[item] = "completed",
                                            !.failed = @ \cup {item}])
            ELSE PlayItem(r, item)

\* The chunk the interval callback builds from the PCM at pcmOffset: the
\* PCM bytes it holds, its size in bytes, and what volume and mute made of it
Chunk(p, item) ==
    LET bytesPerFrame == BytesPerFrame(p.channels[item])
        remaining == p.pcmLength[item] - p.pcmOffset
        taken == IF remaining >= bytesPerFrame
                 THEN [start |-> p.pcmOffset, copied |-> bytesPerFrame,
                       size |-> (p.pcmOffset + bytesPerFrame) - p.pcmOffset]
                 ELSE [start |-> p.pcmOffset, copied |-> remaining,
                       size |-> bytesPerFrame]
    IN IF p.isMuted \/ p.volume = 0
       THEN [start |-> taken.start, copied |-> taken.copied,
             size |-> bytesPerFrame, content |-> "silence"]
       ELSE [start |-> taken.start, copied |-> taken.copied,
             size |-> taken.size,
             content |-> IF p.volume # 100 THEN "scaled" ELSE "pcm"]

\* An interval callback that writes nothing for the last, partial frame
WriteFrameDropsPartial(p, item) ==
    LET bytesPerFrame == BytesPerFrame(p.channels[item])
        remaining == p.pcmLength[item] - p.pcmOffset
    IN IF remaining >= bytesPerFrame
       THEN [p EXCEPT !.pcmOffset = @ + bytesPerFrame,
                      !.written[item] = @ + 1,
                      !.frames[item] = Append(@, Chunk(p, item)),
                      !.wroteAfterStop = @ \/ item \in p.stoppedItems,
                      !.wroteWhileHeld = @ \/ p.pauseHeld]
       ELSE [p EXCEPT !.pcmOffset = p.pcmLength[item]]

\* An interval callback that moves on without writing while muted
WriteFrameMuteDrops(p, item) ==
    LET bytesPerFrame == BytesPerFrame(p.channels[item])
        remaining == p.pcmLength[item] - p.pcmOffset
        moved == [p EXCEPT !.pcmOffset = IF remaining >= bytesPerFrame
                                         THEN @ + bytesPerFrame
                                         ELSE p.pcmLength[item]]
    IN IF p.isMuted \/ p.volume = 0 THEN moved
       ELSE [moved EXCEPT !.written[item] = @ + 1,
                          !.frames[item] = Append(@, Chunk(p, item)),
                          !.wroteAfterStop = @ \/ item \in p.stoppedItems,
                          !.wroteWhileHeld = @ \/ p.pauseHeld]

\* One frame goes to rtAudio.write()
WriteFrame(p, item) ==
    LET bytesPerFrame == BytesPerFrame(p.channels[item])
        remaining == p.pcmLength[item] - p.pcmOffset
    IN [p EXCEPT !.pcmOffset = IF remaining >= bytesPerFrame
                                THEN @ + bytesPerFrame ELSE p.pcmLength[item],
                 !.written[item] = @ + 1,
                 !.frames[item] = Append(@, Chunk(p, item)),
                 !.wroteAfterStop = @ \/ item \in p.stoppedItems,
                 !.wroteWhileHeld = @ \/ p.pauseHeld]

\* The setInterval callback of playItem(item)
IntervalCallback(p, item) ==
    LET q == Touch(p) IN
    IF q.currentItem = 0 \/ q.currentItem # item
    THEN ResolvePlay(ClearWriteInterval(q), item)
    ELSE IF q.state = "stopped" \/ q.status[item] = "cancelled"
    THEN ResolvePlay([ClearWriteInterval(q) EXCEPT !.status[item] = "completed"],
                     item)
    ELSE IF q.state = "paused" THEN q
    ELSE IF q.pcmOffset >= q.pcmLength[item]
    THEN ResolvePlay([ClearWriteInterval(q) EXCEPT !.status[item] = "completed",
                                                   !.currentItem = 0,
                                                   !.finished = @ \cup {item}],
                     item)
    ELSE WriteFrame(q, item)

\* addToQueue(mp3Buffer, text)
AddToQueue(p) ==
    LET item == p.created + 1
        q == Touch([p EXCEPT !.created = item,
                             !.queue = Append(@, item),
                             !.status[item] = "pending",
                             !.drainFired = 0])
    IN IF ~q.isProcessingQueue THEN ProcessQueue(q) ELSE q

\* pause()
PlayerPause(p) ==
    LET q == Touch(p) IN
    IF q.state = "playing"
    THEN [PlayerSetState(q, "paused")
             EXCEPT !.status = IF q.currentItem # 0
                               THEN [@ EXCEPT ![q.currentItem] = "paused"] ELSE @,
                    !.pauseHeld = TRUE,
                    !.pauseMark = <<q.currentItem, q.pcmOffset>>]
    ELSE q

\* resume()
PlayerResume(p) ==
    LET q == Touch([p EXCEPT !.pauseHeld = FALSE, !.pauseMark = <<0, 0>>]) IN
    IF q.state = "paused"
    THEN [PlayerSetState(q, "playing")
             EXCEPT !.status = IF q.currentItem # 0
                               THEN [@ EXCEPT ![q.currentItem] = "playing"] ELSE @]
    ELSE q

\* A stop() that cancels the items and leaves them in the queue
PlayerStopKeepsQueue(p) ==
    LET q == ClearWriteInterval(PlayerSetState(p, "stopped")) IN
    [q EXCEPT !.status = [k \in Items |->
                  IF (\E x \in 1..Len(p.queue) : p.queue[x] = k)
                     /\ p.status[k] # "completed"
                  THEN "cancelled" ELSE p.status[k]],
              !.queue = p.queue,
              !.currentItem = 0,
              !.pcmOffset = 0,
              !.isProcessingQueue = FALSE,
              !.stoppedItems = 1..p.created,
              !.skippedItems = {},
              !.stopRow = IF @ < 2 THEN @ + 1 ELSE @,
              !.stopHadItems = IF p.stopRow = 0
                               THEN \E x \in 1..Len(p.queue) :
                                      p.status[p.queue[x]]
                                          \notin {"completed", "cancelled"}
                               ELSE @,
              !.pauseHeld = FALSE,
              !.pauseMark = <<0, 0>>,
              !.drainFired = 0]

\* stop()
PlayerStop(p) ==
    LET q == ClearWriteInterval(PlayerSetState(p, "stopped")) IN
    [q EXCEPT !.status = [k \in Items |->
                  IF (\E x \in 1..Len(p.queue) : p.queue[x] = k)
                     /\ p.status[k] # "completed"
                  THEN "cancelled" ELSE p.status[k]],
              !.queue = <<>>,
              !.currentItem = 0,
              !.pcmOffset = 0,
              !.isProcessingQueue = FALSE,
              !.stoppedItems = 1..p.created,
              !.skippedItems = {},
              !.stopRow = IF @ < 2 THEN @ + 1 ELSE @,
              !.stopHadItems = IF p.stopRow = 0
                               THEN \E x \in 1..Len(p.queue) :
                                      p.status[p.queue[x]]
                                          \notin {"completed", "cancelled"}
                               ELSE @,
              !.pauseHeld = FALSE,
              !.pauseMark = <<0, 0>>,
              !.drainFired = 0]

\* skip()
PlayerSkip(p) ==
    LET q == Touch(p) IN
    IF q.currentItem # 0
    THEN [ClearWriteInterval(q) EXCEPT !.status[q.currentItem] = "cancelled",
                                       !.skippedItems = @ \cup {q.currentItem},
                                       !.currentItem = 0,
                                       !.pcmOffset = 0]
    ELSE q

\* setMuted(muted)
SetMuted(p, muted) == [Touch(p) EXCEPT !.isMuted = muted]

\* toggleMute()
ToggleMute(p) == [Touch(p) EXCEPT !.isMuted = ~@]

\* setVolume(volume): Math.max(0, Math.min(1, volume))
SetVolume(p, volume) ==
    LET capped == IF volume < 100 THEN volume ELSE 100
    IN [Touch(p) EXCEPT !.volume = IF capped > 0 THEN capped ELSE 0]

(***************************************************************************)
(* Actions of the AudioPlayer                                              *)
(***************************************************************************)
PAddToQueue ==
    /\ player.created < MaxItems
    /\ player' = AddToQueue(player)
    /\ UNCHANGED <<tts, bridge, messageQueue, chunker, resampler, agentManager>>

PDecodeSettled ==
    /\ \E item \in player.decoding, decoded \in BOOLEAN, opens \in BOOLEAN,
          out \in DecoderOutputs :
             player' = AfterDecode(player, item, decoded, out, opens)
    /\ UNCHANGED <<tts, bridge, messageQueue, chunker, resampler, agentManager>>

PIntervalTick ==
    /\ \E item \in player.timers : player' = IntervalCallback(player, item)
    /\ UNCHANGED <<tts, bridge, messageQueue, chunker, resampler, agentManager>>

PPause ==
    /\ player.state = "playing"
    /\ player' = PlayerPause(player)
    /\ UNCHANGED <<tts, bridge, messageQueue, chunker, resampler, agentManager>>

PResume ==
    /\ player.state = "paused" \/ player.pauseHeld
    /\ player' = PlayerResume(player)
    /\ UNCHANGED <<tts, bridge, messageQueue, chunker, resampler, agentManager>>

PStop ==
    /\ player' = PlayerStop(player)
    /\ UNCHANGED <<tts, bridge, messageQueue, chunker, resampler, agentManager>>

PSkip ==
    /\ player.currentItem # 0
    /\ player' = PlayerSkip(player)
    /\ UNCHANGED <<tts, bridge, messageQueue, chunker, resampler, agentManager>>

PSetMuted ==
    /\ \E muted \in BOOLEAN : player' = SetMuted(player, muted)
    /\ UNCHANGED <<tts, bridge, messageQueue, chunker, resampler, agentManager>>

PToggleMute ==
    /\ player' = ToggleMute(player)
    /\ UNCHANGED <<tts, bridge, messageQueue, chunker, resampler, agentManager>>

PSetVolume ==
    /\ \E volume \in VolumeInputs : player' = SetVolume(player, volume)
    /\ UNCHANGED <<tts, bridge, messageQueue, chunker, resampler, agentManager>>

NextPlayer ==
    \/ PAddToQueue
    \/ PDecodeSettled
    \/ PIntervalTick
    \/ PPause
    \/ PResume
    \/ PStop
    \/ PSkip

\* The player with its mute and volume controls
NextPlayerVolume ==
    \/ PToggleMute
    \/ PSetMuted
    \/ PSetVolume
    \/ PAddToQueue
    \/ PDecodeSettled
    \/ PIntervalTick
    \/ PPause
    \/ PResume
    \/ PStop
    \/ PSkip

----------------------------------------------------------------------------
(***************************************************************************)
(* VoiceBridgeServer                                                       *)
(***************************************************************************)
SESSION_CODE_LENGTH == 6
SESSION_CODE_EXPIRY == 5 * 60 * 1000
SESSION_TIMEOUT == 30 * 60 * 1000

\* Codes generateSessionCode() can draw (Math.random: any of them, also one
\* that is already registered)
Codes == {"AAAAAA", "BBBBBB"}

\* What a client can send as sessionCode ("" for a body without one)
ConnectInputs == {"", "aaaaaa", "BBBBBB", "ZZZZZZ"}

\* What the user can have said in an uploaded recording
Transcripts ==
    { "Allow all", "deny all", "always allow", " Yes", "no",
      "maybe okay no", "open the file", "do not allow all" }

UpperChars == "ABCDEFGHIJKLMNOPQRSTUVWXYZ"
LowerChars == "abcdefghijklmnopqrstuvwxyz"

CharAt(str, i) == SubSeq(str, i, i)

\* The letter-to-letter table taking the i-th character of from to the i-th
\* character of to
CharMap(from, to) ==
    [c \in {CharAt(from, i) : i \in 1..Len(from)} |->
        CharAt(to, CHOOSE i \in 1..Len(from) : CharAt(from, i) = c)]

LowerOf == CharMap(UpperChars, LowerChars)
UpperOf == CharMap(LowerChars, UpperChars)

RECURSIVE MapChars(_, _)
MapChars(str, table) ==
    IF Len(str) = 0 THEN ""
    ELSE LET c == CharAt(str, 1)
         IN (IF c \in DOMAIN table THEN table[c] ELSE c)
              \o MapChars(SubSeq(str, 2, Len(str)), table)

\* String.prototype.toLowerCase / toUpperCase
ToLowerCase(str) == MapChars(str, LowerOf)
ToUpperCase(str) == MapChars(str, UpperOf)

\* String.prototype.trim
RECURSIVE Trim(_)
Trim(str) ==
    IF Len(str) = 0 THEN str
    ELSE IF CharAt(str, 1) = " " THEN Trim(SubSeq(str, 2, Len(str)))
    ELSE IF CharAt(str, Len(str)) = " " THEN Trim(SubSeq(str, 1, Len(str) - 1))
    ELSE str

\* String.prototype.includes
Includes(str, phrase) ==
    \E i \in 0..(Len(str) - Len(phrase)) :
        SubSeq(str, i + 1, i + Len(phrase)) = phrase

\* phrases.some(phrase => lower.includes(phrase))
SomeIncluded(lower, phrases) == \E ph \in phrases : Includes(lower, ph)

alwaysAllowPhrases == {"always allow", "always yes", "allow always", "always approve"}
allowAllPhrases == {"allow all", "yes to all", "approve all", "accept all"}
denyAllPhrases == {"deny all", "no to all", "reject all", "cancel all"}
approvalPhrases == {"yes", "yeah", "yep", "approve", "allow", "go ahead",
                    "do it", "okay", "ok"}
denialPhrases == {"no", "nope", "deny", "stop", "cancel", "don't", "reject"}

NoLast ==
    [ op |-> "none", status |-> 0, token |-> 0, code |-> "", transcript |-> "",
      calls |-> <<>>, queue |-> <<>>, forwarded |-> FALSE, reconnect |-> FALSE,
      malformed |-> FALSE, touched |-> FALSE, idle |-> FALSE, stale |-> FALSE,
      known |-> FALSE, events |-> <<>> ]

BridgeInit ==
    [ sessions           |-> << >>,   \* Map code -> Session
      currentSessionCode |-> "",      \* "" is null
      pendingPermissions |-> <<>>,    \* the ids, head first
      now                |-> 0,       \* Date.now()
      audioRequests      |-> {},      \* /audio requests awaiting body and STT,
                                      \* with the head of the queue they found
      permissionRequests |-> {},      \* /permission requests awaiting the body
      showTimers         |-> 0,       \* setTimeout(showCurrentPermission) pending
      showing            |-> 0,       \* the id of the latest permissionRequest
                                      \* event, 0 before the first
      shows              |-> [id \in 1..MaxPermissions |-> 0],
                                      \* permissionRequest events per id (2 is
                                      \* two or more)
      pushed             |-> {},      \* <<id, code>>: a permissionRequest event
                                      \* for id was written to an event stream
                                      \* of session code
      sseClients         |-> << >>,   \* Map token -> event stream
      streams            |-> {},      \* /events requests not closed yet
      ended              |-> {},      \* event streams the server has ended
      subscriptions      |-> 0,       \* /events requests accepted so far
      issued             |-> {},      \* codes createSession() has returned
      swept              |-> {},      \* codes whose session was removed
                                      \* unconnected after the pairing window
      tokens             |-> 0,       \* tokens generated so far
      permissions        |-> 0,       \* permission requests made so far
      uploads            |-> 0,       \* /audio requests accepted so far
      buttons            |-> 0,       \* /permission requests accepted so far
      clockSteps         |-> 0,
      \* The last operation: its response, the pending queue it found, its
      \* calls of onPermissionResponse and onTranscript, the permission events
      \* it handed to sendToSession, and what held of the session it named
      \* when it arrived
      last               |-> NoLast ]

HasSession(b, code) == code \in DOMAIN b.sessions

\* The two expiry tests of cleanupSessions()
IsExpired(session, now) ==
    \/ ~session.connected /\ (now - session.createdAt) > SESSION_CODE_EXPIRY
    \/ session.connected /\ (now - session.lastActivity) > SESSION_TIMEOUT

\* this.sessions.delete(code)
DeleteSession(b, code) ==
    [b EXCEPT !.sessions = [c \in (DOMAIN b.sessions) \ {code} |-> b.sessions[c]]]

\* A cleanupSessions() that looks at unconnected sessions only
CleanupSessionsUnconnectedOnly(b) ==
    [b EXCEPT !.sessions =
        [c \in {d \in DOMAIN b.sessions :
                   b.sessions[d].connected \/ ~IsExpired(b.sessions[d], b.now)}
            |-> b.sessions[c]],
              !.swept = @ \cup {d \in DOMAIN b.sessions :
                                    /\ ~b.sessions[d].connected
                                    /\ IsExpired(b.sessions[d], b.now)}]

\* cleanupSessions()
CleanupSessions(b) ==
    [b EXCEPT !.sessions =
        [c \in {d \in DOMAIN b.sessions : ~IsExpired(b.sessions[d], b.now)}
            |-> b.sessions[c]],
              !.swept = @ \cup {d \in DOMAIN b.sessions :
                                    /\ ~b.sessions[d].connected
                                    /\ IsExpired(b.sessions[d], b.now)},
              !.ended = @ \cup
                  {b.sessions[d].response : d \in
                      {e \in DOMAIN b.sessions :
                          /\ b.sessions[e].connected
                          /\ IsExpired(b.sessions[e], b.now)
                          /\ b.sessions[e].response # 0}}]

\* A connected session whose last activity is more than SESSION_TIMEOUT ago
IsIdle(session, now) ==
    session.connected /\ (now - session.lastActivity) > SESSION_TIMEOUT

\* createSession(), generateSessionCode() drawing code
CreateSession(b, code) ==
    LET c == CleanupSessions(b)
        token == b.tokens + 1
        session == [code |-> code, token |-> token, createdAt |-> b.now,
                    lastActivity |-> b.now, connected |-> FALSE, response |-> 0]
    IN [c EXCEPT !.sessions = (code :> session) @@ c.sessions,
                 !.currentSessionCode = code,
                 !.tokens = token,
                 !.issued = @ \cup {code},
                 !.swept = @ \ {code},
                 !.last = [NoLast EXCEPT !.op = "createSession", !.code = code,
                                         !.token = token]]

\* A handleConnect that pairs a code once only: a connected session's code
\* is refused
HandleConnectOnce(b, malformed, input) ==
    LET code == ToUpperCase(input)
        again == ~malformed /\ code \in DOMAIN b.sessions /\ b.sessions[code].connected
        reply(status) ==
            [NoLast EXCEPT
               !.op = "connect", !.status = status, !.code = code,
               !.reconnect = again, !.malformed = malformed,
               !.queue = b.pendingPermissions,
               !.known = ~malformed /\ code \in DOMAIN b.sessions,
               !.idle = ~malformed /\ code \in DOMAIN b.sessions
                          /\ IsIdle(b.sessions[code], b.now),
               !.stale = /\ ~malformed
                         /\ \/ code \in b.swept
                            \/ /\ code \in DOMAIN b.sessions
                               /\ ~b.sessions[code].connected
                               /\ IsExpired(b.sessions[code], b.now)]
    IN IF malformed THEN [b EXCEPT !.last = reply(400)]
       ELSE IF code = "" THEN [b EXCEPT !.last = reply(400)]
       ELSE IF code \notin DOMAIN b.sessions THEN [b EXCEPT !.last = reply(404)]
       ELSE IF b.sessions[code].connected THEN [b EXCEPT !.last = reply(410)]
       ELSE IF (b.now - b.sessions[code].createdAt) > SESSION_CODE_EXPIRY
       THEN [b EXCEPT !.sessions = [c \in (DOMAIN b.sessions) \ {code} |->
                                       b.sessions[c]],
                      !.swept = @ \cup {code},
                      !.last = reply(410)]
       ELSE [b EXCEPT !.sessions[code].connected = TRUE,
                      !.sessions[code].lastActivity = b.now,
                      !.last = [reply(200) EXCEPT !.token = b.sessions[code].token]]

\* A handleConnect without the test of the pairing window
HandleConnectNoExpiry(b, malformed, input) ==
    LET code == ToUpperCase(input)
        again == ~malformed /\ code \in DOMAIN b.sessions /\ b.sessions[code].connected
        reply(status) ==
            [NoLast EXCEPT
               !.op = "connect", !.status = status, !.code = code,
               !.reconnect = again, !.malformed = malformed,
               !.queue = b.pendingPermissions,
               !.known = ~malformed /\ code \in DOMAIN b.sessions,
               !.idle = ~malformed /\ code \in DOMAIN b.sessions
                          /\ IsIdle(b.sessions[code], b.now),
               !.stale = /\ ~malformed
                         /\ \/ code \in b.swept
                            \/ /\ code \in DOMAIN b.sessions
                               /\ ~b.sessions[code].connected
                               /\ IsExpired(b.sessions[code], b.now)]
    IN IF malformed THEN [b EXCEPT !.last = reply(400)]
       ELSE IF code = "" THEN [b EXCEPT !.last = reply(400)]
       ELSE IF ~code \in DOMAIN b.sessions THEN [b EXCEPT !.last = reply(404)]
       ELSE [b EXCEPT !.sessions[code].connected = TRUE,
                      !.sessions[code].lastActivity = b.now,
                      !.last = [reply(200) EXCEPT !.token = b.sessions[code].token]]

\* handleConnect: the body is malformed JSON, or carries sessionCode input;
\* last.reconnect records that the code named a session already connected
HandleConnect(b, malformed, input) ==
    LET code == ToUpperCase(input)
        again == ~malformed /\ HasSession(b, code) /\ b.sessions[code].connected
        reply(status) ==
            [NoLast EXCEPT
               !.op = "connect", !.status = status, !.code = code,
               !.reconnect = again, !.malformed = malformed,
               !.queue = b.pendingPermissions,
               !.known = ~malformed /\ code \in DOMAIN b.sessions,
               !.idle = ~malformed /\ code \in DOMAIN b.sessions
                          /\ IsIdle(b.sessions[code], b.now),
               !.stale = /\ ~malformed
                         /\ \/ code \in b.swept
                            \/ /\ code \in DOMAIN b.sessions
                               /\ ~b.sessions[code].connected
                               /\ IsExpired(b.sessions[code], b.now)]
    IN IF malformed THEN [b EXCEPT !.last = reply(400)]
       ELSE IF code = "" THEN [b EXCEPT !.last = reply(400)]
       ELSE IF ~HasSession(b, code) THEN [b EXCEPT !.last = reply(404)]
       ELSE IF ~b.sessions[code].connected
               /\ (b.now - b.sessions[code].createdAt) > SESSION_CODE_EXPIRY
       THEN [DeleteSession(b, code) EXCEPT !.swept = @ \cup {code},
                                           !.last = reply(410)]
       ELSE [b EXCEPT !.sessions[code].connected = TRUE,
                      !.sessions[code].lastActivity = b.now,
                      !.last = [reply(200) EXCEPT !.token = b.sessions[code].token]]

\* The token validation loop of handleAudio, handlePermission and handleSSE:
\* the code of the connected session with this token, "" if there is none
ValidSession(b, token) ==
    LET hit == {c \in DOMAIN b.sessions :
                   b.sessions[c].token = token /\ b.sessions[c].connected}
    IN IF hit = {} THEN "" ELSE CHOOSE c \in hit : TRUE

\* The session has an event stream that the server has not ended
HasOpenResponse(b, sessionCode) ==
    /\ sessionCode \in DOMAIN b.sessions
    /\ b.sessions[sessionCode].response # 0
    /\ b.sessions[sessionCode].response \notin b.ended

\* sendToSession(sessionCode, event, data) for the permission events: data
\* is the id and the queue length the event carries; pushed tells whether
\* the event was written to an event stream
SendToSession(b, sessionCode, event, id, count) ==
    [b EXCEPT !.last.events =
        Append(@, [event |-> event, id |-> id, count |-> count,
                   pushed |-> HasOpenResponse(b, sessionCode)])]

\* A showCurrentPermission that shows the newest request of the queue
ShowCurrentPermissionNewest(b) ==
    IF Len(b.pendingPermissions) = 0 \/ b.currentSessionCode = "" THEN b
    ELSE LET current == b.pendingPermissions[Len(b.pendingPermissions)]
         IN [SendToSession(b, b.currentSessionCode, "permissionRequest",
                           current, Len(b.pendingPermissions))
               EXCEPT !.showing = current,
                      !.shows[current] = IF @ < 2 THEN @ + 1 ELSE @]

\* showCurrentPermission(), up to the call of synthesize() (the
\* permissionAudio event that follows it changes no field)
ShowCurrentPermission(b) ==
    IF Len(b.pendingPermissions) = 0 \/ b.currentSessionCode = "" THEN b
    ELSE LET current == b.pendingPermissions[1]
         IN [SendToSession(b, b.currentSessionCode, "permissionRequest",
                           current, Len(b.pendingPermissions))
               EXCEPT !.showing = current,
                      !.shows[current] = IF @ < 2 THEN @ + 1 ELSE @,
                      !.pushed = IF HasOpenResponse(b, b.currentSessionCode)
                                 THEN @ \cup {<<current, b.currentSessionCode>>}
                                 ELSE @]

\* handlePermissionAndAdvance(requestId, approved, alwaysAllow)
HandlePermissionAndAdvance(b, requestId, approved, alwaysAllow) ==
    LET q == b.pendingPermissions
        hit == {i \in 1..Len(q) : q[i] = requestId}
        index == IF hit = {} THEN 0 ELSE CHOOSE i \in hit : \A j \in hit : i <= j
        rest == IF index = 0 THEN q
                ELSE SubSeq(q, 1, index - 1) \o SubSeq(q, index + 1, Len(q))
        called == [b EXCEPT !.pendingPermissions = rest,
                            !.last.calls = Append(@, [id |-> requestId,
                                                      approved |-> approved,
                                                      alwaysAllow |-> alwaysAllow])]
    IN IF called.currentSessionCode = "" THEN called
       ELSE [SendToSession(called, called.currentSessionCode,
                           "permissionHandled", requestId, Len(rest))
               EXCEPT !.showTimers = IF Len(rest) > 0 THEN @ + 1 ELSE @]

\* A batch resolution that stops after the head of the queue
ResolveHeadOnly(b, allIds, approved) ==
    IF allIds = <<>> THEN b
    ELSE HandlePermissionAndAdvance(b, Head(allIds), approved, FALSE)

\* for (const id of allIds) this.handlePermissionAndAdvance(id, approved, false)
RECURSIVE ResolveAll(_, _, _)
ResolveAll(b, allIds, approved) ==
    IF allIds = <<>> THEN b
    ELSE ResolveAll(HandlePermissionAndAdvance(b, Head(allIds), approved, FALSE),
                    Tail(allIds), approved)

\* A checkForPermissionResponse whose plain approval and plain denial do not
\* exclude each other
CheckForPermissionResponseLax(b, transcript) ==
    IF Len(b.pendingPermissions) = 0 THEN [b |-> b, handled |-> FALSE]
    ELSE LET lower == Trim(ToLowerCase(transcript))
             isAlwaysAllow == SomeIncluded(lower, alwaysAllowPhrases)
             isAllowAll == SomeIncluded(lower, allowAllPhrases)
             isDenyAll == SomeIncluded(lower, denyAllPhrases)
             isApproval == SomeIncluded(lower, approvalPhrases)
             isDenial == SomeIncluded(lower, denialPhrases)
             current == b.pendingPermissions[1]
         IN IF isAllowAll
            THEN [b |-> ResolveAll(b, b.pendingPermissions, TRUE), handled |-> TRUE]
            ELSE IF isDenyAll
            THEN [b |-> ResolveAll(b, b.pendingPermissions, FALSE), handled |-> TRUE]
            ELSE IF isAlwaysAllow
            THEN [b |-> HandlePermissionAndAdvance(b, current, TRUE, TRUE),
                  handled |-> TRUE]
            ELSE IF isApproval
            THEN [b |-> HandlePermissionAndAdvance(b, current, TRUE, FALSE),
                  handled |-> TRUE]
            ELSE IF isDenial
            THEN [b |-> HandlePermissionAndAdvance(b, current, FALSE, FALSE),
                  handled |-> TRUE]
            ELSE [b |-> b, handled |-> FALSE]

\* A checkForPermissionResponse that tests the plain words before the batch
\* and always-allow phrases
CheckForPermissionResponsePlainFirst(b, transcript) ==
    IF Len(b.pendingPermissions) = 0 THEN [b |-> b, handled |-> FALSE]
    ELSE LET lower == Trim(ToLowerCase(transcript))
             isAlwaysAllow == SomeIncluded(lower, alwaysAllowPhrases)
             isAllowAll == SomeIncluded(lower, allowAllPhrases)
             isDenyAll == SomeIncluded(lower, denyAllPhrases)
             isApproval == SomeIncluded(lower, approvalPhrases)
             isDenial == SomeIncluded(lower, denialPhrases)
             current == b.pendingPermissions[1]
         IN IF isApproval /\ ~isDenial
            THEN [b |-> HandlePermissionAndAdvance(b, current, TRUE, FALSE),
                  handled |-> TRUE]
            ELSE IF isDenial /\ ~isApproval
            THEN [b |-> HandlePermissionAndAdvance(b, current, FALSE, FALSE),
                  handled |-> TRUE]
            ELSE IF isAllowAll
            THEN [b |-> ResolveAll(b, b.pendingPermissions, TRUE), handled |-> TRUE]
            ELSE IF isDenyAll
            THEN [b |-> ResolveAll(b, b.pendingPermissions, FALSE), handled |-> TRUE]
            ELSE IF isAlwaysAllow
            THEN [b |-> HandlePermissionAndAdvance(b, current, TRUE, TRUE),
                  handled |-> TRUE]
            ELSE [b |-> b, handled |-> FALSE]

\* checkForPermissionResponse(transcript): the bridge afterwards, and the
\* boolean it returns
CheckForPermissionResponse(b, transcript) ==
    IF Len(b.pendingPermissions) = 0 THEN [b |-> b, handled |-> FALSE]
    ELSE LET lower == Trim(ToLowerCase(transcript))
             isAlwaysAllow == SomeIncluded(lower, alwaysAllowPhrases)
             isAllowAll == SomeIncluded(lower, allowAllPhrases)
             isDenyAll == SomeIncluded(lower, denyAllPhrases)
             isApproval == SomeIncluded(lower, approvalPhrases)
             isDenial == SomeIncluded(lower, denialPhrases)
             current == b.pendingPermissions[1]
         IN IF isAllowAll
            THEN [b |-> ResolveAll(b, b.pendingPermissions, TRUE), handled |-> TRUE]
            ELSE IF isDenyAll
            THEN [b |-> ResolveAll(b, b.pendingPermissions, FALSE), handled |-> TRUE]
            ELSE IF isAlwaysAllow
            THEN [b |-> HandlePermissionAndAdvance(b, current, TRUE, TRUE),
                  handled |-> TRUE]
            ELSE IF isApproval /\ ~isDenial
            THEN [b |-> HandlePermissionAndAdvance(b, current, TRUE, FALSE),
                  handled |-> TRUE]
            ELSE IF isDenial /\ ~isApproval
            THEN [b |-> HandlePermissionAndAdvance(b, current, FALSE, FALSE),
                  handled |-> TRUE]
            ELSE [b |-> b, handled |-> FALSE]

\* handleAudio up to the wait for the request body
HandleAudioStart(b, token) ==
    LET code == ValidSession(b, token) IN
    IF code = ""
    THEN [b EXCEPT !.last = [NoLast EXCEPT !.op = "audio", !.status = 401,
                                           !.queue = b.pendingPermissions]]
    ELSE [b EXCEPT !.uploads = @ + 1,
                   !.sessions[code].lastActivity = b.now,
                   !.audioRequests = @ \cup
                       {[id |-> b.uploads + 1, code |-> code,
                         touched |-> b.sessions[code].lastActivity # b.now,
                         head |-> IF b.pendingPermissions = <<>> THEN 0
                                  ELSE Head(b.pendingPermissions)]},
                   !.last = [NoLast EXCEPT
                               !.op = "audioStart", !.code = code,
                               !.idle = IsIdle(b.sessions[code], b.now)]]

\* A handleAudio that passes every transcript on to the assistant
HandleAudioEndForwardsAll(b, request, outcome, spoken) ==
    LET a == [b EXCEPT !.audioRequests = @ \ {request},
                       !.last = [NoLast EXCEPT !.op = "audio",
                                               !.code = request.code,
                                               !.transcript = spoken,
                                               !.queue = b.pendingPermissions,
                                               !.malformed = outcome = "malformed",
                                               !.touched = request.touched]]
    IN IF outcome # "ok" THEN [a EXCEPT !.last.status = 500]
       ELSE LET r == CheckForPermissionResponse(a, spoken) IN
            IF r.handled
            THEN [r.b EXCEPT !.last.status = 200, !.last.forwarded = TRUE]
            ELSE [r.b EXCEPT !.last.status = 200, !.last.forwarded = TRUE]

\* handleAudio's req.on('end'). outcome "malformed": the body is not the JSON
\* expected (JSON.parse or Buffer.from throws); "failed": transcribe() throws;
\* "ok": transcribe() returns the transcript of what was spoken.
\* last.forwarded records the call of onTranscript.
HandleAudioEnd(b, request, outcome, spoken) ==
    LET a == [b EXCEPT !.audioRequests = @ \ {request},
                       !.last = [NoLast EXCEPT !.op = "audio",
                                               !.code = request.code,
                                               !.transcript = spoken,
                                               !.queue = b.pendingPermissions,
                                               !.malformed = outcome = "malformed",
                                               !.touched = request.touched]]
    IN IF outcome # "ok" THEN [a EXCEPT !.last.status = 500]
       ELSE LET r == CheckForPermissionResponse(a, spoken) IN
            IF r.handled
            THEN [r.b EXCEPT !.last.status = 200]
            ELSE [r.b EXCEPT !.last.status = 200, !.last.forwarded = TRUE]

\* handlePermission up to the wait for the request body
HandlePermissionStart(b, token) ==
    LET code == ValidSession(b, token) IN
    IF code = ""
    THEN [b EXCEPT !.last = [NoLast EXCEPT !.op = "permission", !.status = 401,
                                           !.queue = b.pendingPermissions]]
    ELSE [b EXCEPT !.buttons = @ + 1,
                   !.permissionRequests = @ \cup {[id |-> b.buttons + 1,
                                                   code |-> code]},
                   !.last = [NoLast EXCEPT
                               !.op = "permissionStart", !.code = code,
                               !.idle = IsIdle(b.sessions[code], b.now)]]

\* handlePermission's req.on('end')
HandlePermissionEnd(b, request, malformed, requestId, approved, alwaysAllow) ==
    LET a == [b EXCEPT !.permissionRequests = @ \ {request},
                       !.last = [NoLast EXCEPT !.op = "permission",
                                               !.code = request.code,
                                               !.queue = b.pendingPermissions,
                                               !.malformed = malformed]]
    IN IF malformed THEN [a EXCEPT !.last.status = 400]
       ELSE [HandlePermissionAndAdvance(a, requestId, approved, alwaysAllow)
               EXCEPT !.last.status = 200]

\* handleSSE: GET /events?token=...
HandleSSE(b, token) ==
    LET code == ValidSession(b, token)
        id == b.subscriptions + 1
    IN IF code = ""
       THEN [b EXCEPT !.last = [NoLast EXCEPT !.op = "events", !.status = 401,
                                              !.queue = b.pendingPermissions]]
       ELSE [b EXCEPT !.subscriptions = id,
                      !.streams = @ \cup {[id |-> id, token |-> token]},
                      !.sseClients = (token :> id) @@ @,
                      !.sessions[code].response = id,
                      !.last = [NoLast EXCEPT
                                  !.op = "events", !.status = 200, !.code = code,
                                  !.idle = IsIdle(b.sessions[code], b.now)]]

\* A close handler that also takes the session out of the connected state
HandleSSECloseDisconnects(b, stream) ==
    [b EXCEPT !.streams = @ \ {stream},
              !.sseClients = [t \in (DOMAIN @) \ {stream.token} |-> @[t]],
              !.sessions = [c \in DOMAIN @ |->
                              IF @[c].token = stream.token
                              THEN [@[c] EXCEPT !.connected = FALSE] ELSE @[c]],
              !.last = NoLast]

\* handleSSE's req.on('close') for one event stream
HandleSSEClose(b, stream) ==
    [b EXCEPT !.streams = @ \ {stream},
              !.sseClients = [t \in (DOMAIN @) \ {stream.token} |-> @[t]],
              !.last = NoLast]

\* A sendPermissionRequest that shows every request it queues
SendPermissionRequestShowsAll(b) ==
    LET id == b.permissions + 1
        a == [b EXCEPT !.permissions = id,
                       !.last = [NoLast EXCEPT !.op = "sendPermissionRequest",
                                               !.queue = b.pendingPermissions]]
    IN IF a.currentSessionCode # ""
          /\ HasSession(a, a.currentSessionCode)
          /\ a.sessions[a.currentSessionCode].connected
       THEN LET pushed == [a EXCEPT !.pendingPermissions = Append(@, id)]
                told == SendToSession(pushed, pushed.currentSessionCode,
                                      "permissionQueue",
                                      pushed.pendingPermissions[1],
                                      Len(pushed.pendingPermissions))
            IN [SendToSession(told, told.currentSessionCode,
                              "permissionRequest", id,
                              Len(told.pendingPermissions))
                  EXCEPT !.showing = id,
                         !.shows[id] = IF @ < 2 THEN @ + 1 ELSE @]
       ELSE a

\* sendPermissionRequest(request), request.id being fresh
SendPermissionRequest(b) ==
    LET id == b.permissions + 1
        a == [b EXCEPT !.permissions = id,
                       !.last = [NoLast EXCEPT !.op = "sendPermissionRequest",
                                               !.queue = b.pendingPermissions]]
    IN IF a.currentSessionCode # ""
          /\ HasSession(a, a.currentSessionCode)
          /\ a.sessions[a.currentSessionCode].connected
       THEN LET pushed == [a EXCEPT !.pendingPermissions = Append(@, id)]
                told == SendToSession(pushed, pushed.currentSessionCode,
                                      "permissionQueue",
                                      pushed.pendingPermissions[1],
                                      Len(pushed.pendingPermissions))
            IN IF Len(told.pendingPermissions) = 1
               THEN ShowCurrentPermission(told)
               ELSE told
       ELSE a

\* The setTimeout(() => this.showCurrentPermission(), 500) callback
ShowTimerFires(b) ==
    ShowCurrentPermission(
        [b EXCEPT !.showTimers = @ - 1,
                  !.last = [NoLast EXCEPT !.op = "showTimer",
                                          !.queue = b.pendingPermissions]])

\* Time passes: up to and just beyond each of the two windows
ClockIntervals ==
    { SESSION_CODE_EXPIRY, SESSION_CODE_EXPIRY + 1, SESSION_TIMEOUT + 1 }

ClockAdvance(b, d) ==
    [b EXCEPT !.now = @ + d, !.clockSteps = @ + 1, !.last = NoLast]

(***************************************************************************)
(* Actions of the VoiceBridgeServer                                        *)
(***************************************************************************)
Tokens(b) == 0..b.tokens      \* 0 is a token no session has

BCreateSession ==
    /\ bridge.tokens < MaxSessions
    /\ \E code \in Codes : bridge' = CreateSession(bridge, code)
    /\ UNCHANGED <<tts, player, messageQueue, chunker, resampler, agentManager>>

BConnect ==
    /\ \/ bridge' = HandleConnect(bridge, TRUE, "")
       \/ \E input \in ConnectInputs :
             bridge' = HandleConnect(bridge, FALSE, input)
    /\ UNCHANGED <<tts, player, messageQueue, chunker, resampler, agentManager>>

BAudioStart ==
    /\ bridge.uploads < MaxUploads
    /\ \E token \in Tokens(bridge) : bridge' = HandleAudioStart(bridge, token)
    /\ UNCHANGED <<tts, player, messageQueue, chunker, resampler, agentManager>>

BAudioEnd ==
    /\ \E request \in bridge.audioRequests :
          \/ \E outcome \in {"malformed", "failed"} :
                bridge' = HandleAudioEnd(bridge, request, outcome, "")
          \/ \E spoken \in Transcripts :
                bridge' = HandleAudioEnd(bridge, request, "ok", spoken)
    /\ UNCHANGED <<tts, player, messageQueue, chunker, resampler, agentManager>>

BPermissionStart ==
    /\ bridge.buttons < MaxButtons
    /\ \E token \in Tokens(bridge) :
          bridge' = HandlePermissionStart(bridge, token)
    /\ UNCHANGED <<tts, player, messageQueue, chunker, resampler, agentManager>>

BPermissionEnd ==
    /\ \E request \in bridge.permissionRequests :
          \/ bridge' = HandlePermissionEnd(bridge, request, TRUE, 0, FALSE, FALSE)
          \/ \E requestId \in 1..MaxPermissions, approved \in BOOLEAN,
                alwaysAllow \in BOOLEAN :
                bridge' = HandlePermissionEnd(bridge, request, FALSE, requestId,
                                              approved, alwaysAllow)
    /\ UNCHANGED <<tts, player, messageQueue, chunker, resampler, agentManager>>

BEvents ==
    /\ bridge.subscriptions < MaxSubscriptions
    /\ \E token \in Tokens(bridge) : bridge' = HandleSSE(bridge, token)
    /\ UNCHANGED <<tts, player, messageQueue, chunker, resampler, agentManager>>

BEventsClose ==
    /\ \E stream \in bridge.streams : bridge' = HandleSSEClose(bridge, stream)
    /\ UNCHANGED <<tts, player, messageQueue, chunker, resampler, agentManager>>

BSendPermissionRequest ==
    /\ bridge.permissions < MaxPermissions
    /\ bridge' = SendPermissionRequest(bridge)
    /\ UNCHANGED <<tts, player, messageQueue, chunker, resampler, agentManager>>

BShowTimerFires ==
    /\ bridge.showTimers > 0
    /\ bridge' = ShowTimerFires(bridge)
    /\ UNCHANGED <<tts, player, messageQueue, chunker, resampler, agentManager>>

BClockAdvance ==
    /\ bridge.clockSteps < MaxClockSteps
    /\ \E d \in ClockIntervals :
          bridge' = ClockAdvance(bridge, d)
    /\ UNCHANGED <<tts, player, messageQueue, chunker, resampler, agentManager>>

NextBridge ==
    \/ BCreateSession
    \/ BConnect
    \/ BAudioStart
    \/ BAudioEnd
    \/ BPermissionStart
    \/ BPermissionEnd
    \/ BSendPermissionRequest
    \/ BShowTimerFires
    \/ BClockAdvance


----------------------------------------------------------------------------
(***************************************************************************)
(* MessageQueue                                                            *)
(*                                                                         *)
(* queue holds the QueuedMessage objects in array order.  calls lists the  *)
(* processCallback calls that have not settled, timers counts the          *)
(* setTimeout(processNext) callbacks not yet run.  invoked, failed and     *)
(* removed are observation logs: the messages handed to processCallback in *)
(* call order, the ids whose call rejected, and the ids taken out of the   *)
(* array while 'queued'.  Ids are msg-<time>-<random>; the model numbers   *)
(* them in the order of addMessage.                                        *)
(***************************************************************************)
Texts == {"hi", "go"}

MessageQueueInit ==
    [queue |-> << >>, isProcessing |-> FALSE, calls |-> << >>, timers |-> 0,
     nextId |-> 1, invoked |-> << >>, failed |-> {}, removed |-> {}]

\* queue.find(m => m.status === 'queued'): its index, 0 if there is none
FirstQueued(queue) ==
    LET idx == { i \in 1..Len(queue) : queue[i].status = "queued" }
    IN IF idx = {} THEN 0 ELSE CHOOSE i \in idx : \A j \in idx : i <= j

\* A processNext() that starts a message whatever isProcessing says
ProcessNextUnguarded(q) ==
    IF Len(q.queue) = 0 THEN q
    ELSE LET i == FirstQueued(q.queue)
         IN IF i = 0 THEN q
            ELSE [q EXCEPT !.isProcessing = TRUE,
                           !.queue[i].status = "processing",
                           !.calls = Append(@, q.queue[i].id),
                           !.invoked = Append(@, [id |-> q.queue[i].id,
                                                  text |-> q.queue[i].text])]

\* processNext() up to its await of processCallback(message.text)
ProcessNext(q) ==
    IF q.isProcessing \/ Len(q.queue) = 0 THEN q
    ELSE LET i == FirstQueued(q.queue)
         IN IF i = 0 THEN q
            ELSE [q EXCEPT !.isProcessing = TRUE,
                           !.queue[i].status = "processing",
                           !.calls = Append(@, q.queue[i].id),
                           !.invoked = Append(@, [id |-> q.queue[i].id,
                                                  text |-> q.queue[i].text])]

\* addMessage(text)
AddMessage(q, text) ==
    LET message == [id |-> q.nextId, text |-> text, status |-> "queued"]
        pushed == [q EXCEPT !.queue = Append(@, message), !.nextId = @ + 1]
    IN IF ~pushed.isProcessing THEN ProcessNext(pushed) ELSE pushed

RemoveAt(seq, i) == SubSeq(seq, 1, i - 1) \o SubSeq(seq, i + 1, Len(seq))

\* A processNext() whose await lets the rejection of processCallback through:
\* nothing after the await runs
ProcessCallbackSettlesUncaught(q, k, ok) ==
    IF ok
    THEN [q EXCEPT !.queue = [i \in 1..Len(q.queue) |->
                                 IF q.queue[i].id = q.calls[k]
                                 THEN [q.queue[i] EXCEPT !.status = "completed"]
                                 ELSE q.queue[i]],
                   !.isProcessing = FALSE,
                   !.calls = RemoveAt(@, k),
                   !.timers = @ + 1]
    ELSE [q EXCEPT !.calls = RemoveAt(@, k), !.failed = @ \cup {q.calls[k]}]

\* processNext() from the settling of the k-th pending processCallback call:
\* fulfilled or rejected, the message is 'completed', isProcessing is
\* dropped and processNext is put on a timer
ProcessCallbackSettles(q, k, ok) ==
    [q EXCEPT !.queue = [i \in 1..Len(q.queue) |->
                            IF q.queue[i].id = q.calls[k]
                            THEN [q.queue[i] EXCEPT !.status = "completed"]
                            ELSE q.queue[i]],
              !.isProcessing = FALSE,
              !.calls = RemoveAt(@, k),
              !.timers = @ + 1,
              !.failed = IF ok THEN @ ELSE @ \cup {q.calls[k]}]

\* Array.prototype.filter, keep being the elements the test lets through
Filter(seq, keep) ==
    LET F[i \in 0..Len(seq)] ==
            IF i = 0 THEN << >>
            ELSE IF seq[i] \in keep THEN Append(F[i - 1], seq[i]) ELSE F[i - 1]
    IN F[Len(seq)]

\* A clearQueue() that empties the queue, the message being processed included
ClearQueueAll(q) ==
    [q EXCEPT !.queue = << >>,
              !.removed = @ \cup { q.queue[i].id : i \in 1..Len(q.queue) }]

\* clearQueue()
ClearQueue(q) ==
    LET kept == { q.queue[i] : i \in { j \in 1..Len(q.queue) :
                                          q.queue[j].status = "processing" } }
        gone == { q.queue[i].id : i \in { j \in 1..Len(q.queue) :
                                             q.queue[j].status = "queued" } }
    IN [q EXCEPT !.queue = Filter(q.queue, kept),
                 !.removed = @ \cup gone]

\* removeMessage(id)
RemoveMessage(q, id) ==
    LET idx == { i \in 1..Len(q.queue) :
                    q.queue[i].id = id /\ q.queue[i].status = "queued" }
    IN IF idx = {} THEN q
       ELSE LET index == CHOOSE i \in idx : \A j \in idx : i <= j
            IN [q EXCEPT !.queue = RemoveAt(@, index),
                         !.removed = @ \cup {id}]

MQAddMessage ==
    /\ messageQueue.nextId <= MaxMessages
    /\ \E text \in Texts : messageQueue' = AddMessage(messageQueue, text)
    /\ UNCHANGED <<tts, player, bridge, chunker, resampler, agentManager>>

MQProcessCallbackSettles ==
    /\ \E k \in 1..Len(messageQueue.calls), ok \in BOOLEAN :
          messageQueue' = ProcessCallbackSettles(messageQueue, k, ok)
    /\ UNCHANGED <<tts, player, bridge, chunker, resampler, agentManager>>

\* The setTimeout(() => this.processNext(), 100) callback
MQTimerFires ==
    /\ messageQueue.timers > 0
    /\ messageQueue' = ProcessNext([messageQueue EXCEPT !.timers = @ - 1])
    /\ UNCHANGED <<tts, player, bridge, chunker, resampler, agentManager>>

MQClearQueue ==
    /\ messageQueue' = ClearQueue(messageQueue)
    /\ UNCHANGED <<tts, player, bridge, chunker, resampler, agentManager>>

MQRemoveMessage ==
    /\ \E id \in 1..MaxMessages :
          messageQueue' = RemoveMessage(messageQueue, id)
    /\ UNCHANGED <<tts, player, bridge, chunker, resampler, agentManager>>

NextQueue ==
    \/ MQAddMessage
    \/ MQProcessCallbackSettles
    \/ MQTimerFires
    \/ MQClearQueue
    \/ MQRemoveMessage


----------------------------------------------------------------------------
(***************************************************************************)
(* StreamingTTSManager.splitIntoSentences                                  *)
(*                                                                         *)
(* A text is given by what the splitter reads of it: the lengths of the    *)
(* raw sentences that text.split(sentencePattern) yields, each already     *)
(* trimmed, and the whitespace around the text (padding).  The pattern     *)
(* consumes the whitespace between two sentences, taken here as one        *)
(* character.  Only a text that is all whitespace has an empty sentence.   *)
(* A chunk is the sentences it is made of (their indices in the text) and  *)
(* its length in characters.                                               *)
(***************************************************************************)
MaxSentences == 4
minChunkLength == 100

SentenceLengths == {1, 60, 99, 100, 150, 200}
Paddings == {0, 200}

RECURSIVE SeqsUpTo(_, _)
SeqsUpTo(S, n) ==
    IF n = 0 THEN {<<>>}
    ELSE LET shorter == SeqsUpTo(S, n - 1)
         IN  shorter \cup {Append(s, x) : s \in {t \in shorter : Len(t) = n - 1}, x \in S}

SplitTexts ==
    {[raw |-> r, padding |-> p] : r \in SeqsUpTo(SentenceLengths, MaxSentences) \ {<<>>},
                                  p \in Paddings}
    \cup {[raw |-> <<0>>, padding |-> p] : p \in Paddings}

RECURSIVE SumLen(_)
SumLen(lens) == IF lens = <<>> THEN 0 ELSE Head(lens) + SumLen(Tail(lens))

\* text.trim().length
TrimmedLength(text) == SumLen(text.raw) + (Len(text.raw) - 1)

\* text.length
TextLength(text) == TrimmedLength(text) + text.padding

EmptyChunk == [sentences |-> <<>>, length |-> 0]

\* currentChunk = trimmed
StartChunk(i, trimmed) == [sentences |-> <<i>>, length |-> trimmed]

\* currentChunk += ' ' + trimmed
ExtendChunk(c, i, trimmed) ==
    [sentences |-> Append(c.sentences, i), length |-> c.length + 1 + trimmed]

\* The loop with the minimum-length test of its last branch left out: the
\* current chunk is pushed as soon as the next sentence would make it too long.
RECURSIVE CombineSentencesNoMinimum(_, _, _, _)
CombineSentencesNoMinimum(raw, i, combined, currentChunk) ==
    IF i > Len(raw) THEN [combined |-> combined, currentChunk |-> currentChunk]
    ELSE LET trimmed == raw[i]
         IN  IF trimmed = 0
             THEN CombineSentencesNoMinimum(raw, i + 1, combined, currentChunk)
             ELSE IF currentChunk.length = 0
             THEN CombineSentencesNoMinimum(raw, i + 1, combined, StartChunk(i, trimmed))
             ELSE IF currentChunk.length + trimmed < minChunkLength * 2
             THEN CombineSentencesNoMinimum(raw, i + 1, combined,
                                            ExtendChunk(currentChunk, i, trimmed))
             ELSE CombineSentencesNoMinimum(raw, i + 1, Append(combined, currentChunk),
                                            StartChunk(i, trimmed))

\* for (const sentence of rawSentences) { ... }
RECURSIVE CombineSentences(_, _, _, _)
CombineSentences(raw, i, combined, currentChunk) ==
    IF i > Len(raw) THEN [combined |-> combined, currentChunk |-> currentChunk]
    ELSE LET trimmed == raw[i]
         IN  IF trimmed = 0
             THEN CombineSentences(raw, i + 1, combined, currentChunk)
             ELSE IF currentChunk.length = 0
             THEN CombineSentences(raw, i + 1, combined, StartChunk(i, trimmed))
             ELSE IF currentChunk.length + trimmed < minChunkLength * 2
             THEN CombineSentences(raw, i + 1, combined,
                                   ExtendChunk(currentChunk, i, trimmed))
             ELSE IF currentChunk.length >= minChunkLength
             THEN CombineSentences(raw, i + 1, Append(combined, currentChunk),
                                   StartChunk(i, trimmed))
             ELSE CombineSentences(raw, i + 1, combined,
                                   ExtendChunk(currentChunk, i, trimmed))

\* [text.trim()]
WholeText(text) ==
    <<[sentences |-> [i \in 1..Len(text.raw) |-> i], length |-> TrimmedLength(text)]>>

SplitIntoSentences(text) ==
    IF TextLength(text) < 200 THEN WholeText(text)
    ELSE LET loop == CombineSentences(text.raw, 1, <<>>, EmptyChunk)
             combined == IF loop.currentChunk.length > 0
                         THEN Append(loop.combined, loop.currentChunk)
                         ELSE loop.combined
         IN  IF Len(combined) = 0 THEN WholeText(text) ELSE combined

ChunkerIdle == [text |-> [raw |-> <<0>>, padding |-> 0], called |-> FALSE, chunks |-> <<>>]

\* streamText(text) reaching splitIntoSentences(text)
CallSplitIntoSentences ==
    /\ ~chunker.called
    /\ chunker' = [chunker EXCEPT !.called = TRUE,
                                  !.chunks = SplitIntoSentences(chunker.text)]
    /\ UNCHANGED <<tts, player, bridge, messageQueue, resampler, agentManager>>


----------------------------------------------------------------------------
(***************************************************************************)
(* AudioPlayer.resampleChannel                                             *)
(*                                                                         *)
(* Of the channel only its length is kept.  The code computes              *)
(* Math.floor(input.length / (inputRate / outputRate)) in double           *)
(* precision; for the rates and lengths below the double result equals     *)
(* the exact floor of input.length * outputRate / inputRate, which is      *)
(* what ResampledLength computes.                                          *)
(***************************************************************************)
MaxLength == 24

SampleRates == {8000, 24000, 44100, 48000}

\* A resampler that rounds the output length up instead of down.
ResampledLengthRoundedUp(inputLength, inputRate, outputRate) ==
    (inputLength * outputRate + inputRate - 1) \div inputRate

\* outputLength = Math.floor(input.length / ratio), ratio = inputRate / outputRate
ResampledLength(inputLength, inputRate, outputRate) ==
    (inputLength * outputRate) \div inputRate

NotResampled == 0 - 1

ResamplerIdle ==
    [inputLength |-> 0, inputRate |-> 44100, outputRate |-> 44100,
     there |-> NotResampled, back |-> NotResampled]

ResamplerInputs ==
    {[inputLength |-> l, inputRate |-> a, outputRate |-> b,
      there |-> NotResampled, back |-> NotResampled] :
        l \in 0..MaxLength, a \in SampleRates, b \in SampleRates}

\* resampleChannel(input, inputRate, outputRate)
ResampleThere ==
    /\ resampler.there = NotResampled
    /\ resampler' = [resampler EXCEPT !.there =
           ResampledLength(resampler.inputLength, resampler.inputRate, resampler.outputRate)]
    /\ UNCHANGED <<tts, player, bridge, messageQueue, chunker, agentManager>>

\* resampleChannel(output, outputRate, inputRate)
ResampleBack ==
    /\ resampler.there # NotResampled
    /\ resampler.back = NotResampled
    /\ resampler' = [resampler EXCEPT !.back =
           ResampledLength(resampler.there, resampler.outputRate, resampler.inputRate)]
    /\ UNCHANGED <<tts, player, bridge, messageQueue, chunker, agentManager>>

----------------------------------------------------------------------------
(***************************************************************************)
(* AgentManager (src/src/agent-manager.ts)                                 *)
(*                                                                         *)
(* agents is the Map in insertion order; of an Agent the id and isDefault  *)
(* are kept.  generateId() yields a fresh id at every call: the ids are    *)
(* numbered in order of creation.  activeAgentId = 0 stands for null.      *)
(* last records the latest call, its return value and the active agent     *)
(* before it.                                                              *)
(***************************************************************************)
MaxAgents == 4

AgentIds == 1..MaxAgents

NoCall == [op |-> "none", id |-> 0, returned |-> 0, activeBefore |-> 0]

AgentManagerInit ==
    [agents |-> <<>>, activeAgentId |-> 0, created |-> 0, last |-> NoCall]

IdsOf(agents) == {agents[i].id : i \in 1..Len(agents)}

HasDefault(agents) == \E i \in 1..Len(agents) : agents[i].isDefault

FirstDefault(agents) ==
    agents[CHOOSE i \in 1..Len(agents) :
               /\ agents[i].isDefault
               /\ \A j \in 1..(i - 1) : ~agents[j].isDefault]

CreateAgent(am) ==
    LET id == am.created + 1
        isDefault == Len(am.agents) = 0
    IN  [am EXCEPT !.agents = Append(@, [id |-> id, isDefault |-> isDefault]),
                   !.activeAgentId = IF isDefault THEN id ELSE @,
                   !.created = id,
                   !.last = [op |-> "createAgent", id |-> 0, returned |-> id,
                             activeBefore |-> am.activeAgentId]]

GetOrCreateDefaultAgent(am) ==
    IF HasDefault(am.agents)
    THEN [am EXCEPT !.last = [op |-> "getOrCreateDefaultAgent", id |-> 0,
                              returned |-> FirstDefault(am.agents).id,
                              activeBefore |-> am.activeAgentId]]
    ELSE [CreateAgent(am) EXCEPT !.last.op = "getOrCreateDefaultAgent"]

SwitchAgent(am, id) ==
    IF id \in IdsOf(am.agents)
    THEN [am EXCEPT !.activeAgentId = id,
                    !.last = [op |-> "switchAgent", id |-> id, returned |-> id,
                              activeBefore |-> am.activeAgentId]]
    ELSE [am EXCEPT !.last = [op |-> "switchAgent", id |-> id, returned |-> 0,
                              activeBefore |-> am.activeAgentId]]

Without(agents, id) == SelectSeq(agents, LAMBDA a : a.id # id)

\* closeAgent that deletes the agent and leaves activeAgentId as it was.
CloseAgentKeepsActive(am, id) ==
    IF id \notin IdsOf(am.agents) \/ Len(am.agents) = 1
    THEN [am EXCEPT !.last = [op |-> "closeAgent", id |-> id, returned |-> FALSE,
                              activeBefore |-> am.activeAgentId]]
    ELSE [am EXCEPT !.agents = Without(@, id),
                    !.last = [op |-> "closeAgent", id |-> id, returned |-> TRUE,
                              activeBefore |-> am.activeAgentId]]

CloseAgent(am, id) ==
    IF id \notin IdsOf(am.agents) \/ Len(am.agents) = 1
    THEN [am EXCEPT !.last = [op |-> "closeAgent", id |-> id, returned |-> FALSE,
                              activeBefore |-> am.activeAgentId]]
    ELSE LET remaining == Without(am.agents, id)
         IN  [am EXCEPT !.agents = remaining,
                        !.activeAgentId = IF @ = id THEN remaining[1].id ELSE @,
                        !.last = [op |-> "closeAgent", id |-> id, returned |-> TRUE,
                                  activeBefore |-> am.activeAgentId]]

AMCreateAgent ==
    /\ agentManager.created < MaxAgents
    /\ agentManager' = CreateAgent(agentManager)
    /\ UNCHANGED <<tts, player, bridge, messageQueue, chunker, resampler>>

AMGetOrCreateDefaultAgent ==
    /\ agentManager.created < MaxAgents \/ HasDefault(agentManager.agents)
    /\ agentManager' = GetOrCreateDefaultAgent(agentManager)
    /\ UNCHANGED <<tts, player, bridge, messageQueue, chunker, resampler>>

AMSwitchAgent ==
    /\ \E id \in AgentIds : agentManager' = SwitchAgent(agentManager, id)
    /\ UNCHANGED <<tts, player, bridge, messageQueue, chunker, resampler>>

AMCloseAgent ==
    /\ \E id \in AgentIds : agentManager' = CloseAgent(agentManager, id)
    /\ UNCHANGED <<tts, player, bridge, messageQueue, chunker, resampler>>

NextAgents ==
    \/ AMCreateAgent
    \/ AMGetOrCreateDefaultAgent
    \/ AMSwitchAgent
    \/ AMCloseAgent


----------------------------------------------------------------------------
(***************************************************************************)
(* StreamingTTSManager together with the AudioPlayer it plays through      *)
(* (getPlayer()): stop() calls player.stop(), and a chunk handed to the    *)
(* local target is player.addToQueue(item.audioBuffer, item.text).  The    *)
(* k-th chunk handed over is the player's item k.  No browser is           *)
(* connected.                                                              *)
(***************************************************************************)
\* streamText(text): stop(), which stops the player, then the new queue
PlaybackStreamText ==
    /\ Idle(tts) /\ tts.started < MaxStreams
    /\ \E k \in 1..MaxChunks : tts' = TtsStreamText(tts, k)
    /\ player' = PlayerStop(player)
    /\ UNCHANGED <<bridge, messageQueue, chunker, resampler, agentManager>>

\* A resumed playbackLoop(): where it hands a chunk over, addToQueue() runs
PlaybackRunMicrotask ==
    /\ tts.microq # <<>>
    /\ LET l == Head(tts.microq)
           r == [tts EXCEPT !.microq = Tail(@)]
           after == IF tts.pc[l] = "afterAdd" THEN LoopAfterAdd(r, l)
                    ELSE LoopPost(r, l)
           handsOver == Len(after.delivered) > Len(tts.delivered)
       IN /\ handsOver => player.created < MaxItems
          /\ tts' = after
          /\ player' = IF handsOver THEN AddToQueue(player) ELSE player
    /\ UNCHANGED <<bridge, messageQueue, chunker, resampler, agentManager>>

NextPlayback ==
    \/ PlaybackStreamText
    \/ SynthSettled
    \/ PlaybackRunMicrotask
    \/ PDecodeSettled
    \/ PIntervalTick


Init ==
    /\ tts = TtsInit
    /\ player = PlayerInit
    /\ bridge = BridgeInit
    /\ messageQueue = MessageQueueInit
    /\ chunker = ChunkerIdle
    /\ resampler = ResamplerIdle
    /\ agentManager = AgentManagerInit

NextTTS ==
    \/ StreamText
    \/ SynthSettled
    \/ RunMicrotask
    \/ SleepWake
    \/ Stop
    \/ Interrupt
    \/ Pause
    \/ Resume
    \/ SkipCurrent
    \/ BrowserToggle

SpecTTS == Init /\ [][NextTTS]_vars

SpecPlayer == Init /\ [][NextPlayer]_vars

SpecPlayerVolume == Init /\ [][NextPlayerVolume]_vars

SpecBridge == Init /\ [][NextBridge]_vars

\* The session table under every request that names a session, the event
\* stream included, while the assistant asks for no permission
NextSessions ==
    \/ BCreateSession
    \/ BConnect
    \/ BAudioStart
    \/ BAudioEnd
    \/ BPermissionStart
    \/ BPermissionEnd
    \/ BEvents
    \/ BEventsClose
    \/ BClockAdvance

SpecSessions == Init /\ [][NextSessions]_vars

\* The permission queue with its events, the sessions they are pushed to
\* and the two ways of answering, while no time passes
NextPermissions ==
    \/ BCreateSession
    \/ BConnect
    \/ BEvents
    \/ BEventsClose
    \/ BAudioStart
    \/ BAudioEnd
    \/ BPermissionStart
    \/ BPermissionEnd
    \/ BSendPermissionRequest
    \/ BShowTimerFires

SpecPermissions == Init /\ [][NextPermissions]_vars

\* The 500 ms timers of the server run, and a client that can open its
\* event stream does
SpecPermissionsFair ==
    SpecPermissions /\ WF_vars(BShowTimerFires) /\ WF_vars(BEvents)

SpecQueue == Init /\ [][NextQueue]_vars

\* The same with every pending processCallback call settling in the end and
\* every timer callback run in the end
SpecQueueFair ==
    /\ Init
    /\ [][NextQueue]_vars
    /\ WF_vars(MQProcessCallbackSettles)
    /\ WF_vars(MQTimerFires)

\* The splitter applied to each text of SplitTexts.
InitSplit ==
    /\ tts = TtsInit
    /\ player = PlayerInit
    /\ bridge = BridgeInit
    /\ messageQueue = MessageQueueInit
    /\ chunker \in {[text |-> t, called |-> FALSE, chunks |-> <<>>] : t \in SplitTexts}
    /\ resampler = ResamplerIdle
    /\ agentManager = AgentManagerInit

NextSplit == CallSplitIntoSentences

SpecSplit == InitSplit /\ [][NextSplit]_vars

\* The resampler applied to each length and pair of rates, there and back.
InitResample ==
    /\ tts = TtsInit
    /\ player = PlayerInit
    /\ bridge = BridgeInit
    /\ messageQueue = MessageQueueInit
    /\ chunker = ChunkerIdle
    /\ resampler \in ResamplerInputs
    /\ agentManager = AgentManagerInit

NextResample ==
    \/ ResampleThere
    \/ ResampleBack

SpecResample == InitResample /\ [][NextResample]_vars

SpecAgents == Init /\ [][NextAgents]_vars

SpecPlayback == Init /\ [][NextPlayback]_vars

----------------------------------------------------------------------------
(***************************************************************************)
(* Properties of the AudioPlayer                                           *)
(***************************************************************************)
\* Some processQueue() call can still run: one awaits the decoder, or one
\* awaits a playItem() promise whose timer is alive to resolve it.
QueueAlive(p) ==
    \/ ~p.isProcessingQueue
    \/ p.decoding # {}
    \/ \E t \in p.timers : t \in p.awaitingPlay

\* C2: an item skipped while it played ends 'cancelled', and the queue goes
\* on to the next pending item.
C2_SkipAdvancesQueue ==
    \A k \in player.skippedItems :
        /\ player.status[k] = "cancelled"
        /\ PendingIdx(player) # {} => QueueAlive(player)

C5_StopHaltsWriting == ~player.wroteAfterStop

\* C6: between a pause() that found the player playing and the next
\* resume() no frame is written, and the offset in the paused item stays.
C6_PauseHoldsWriting ==
    /\ ~player.wroteWhileHeld
    /\ (player.pauseHeld /\ player.pauseMark[1] # 0
          /\ player.currentItem = player.pauseMark[1])
         => player.pcmOffset = player.pauseMark[2]

----------------------------------------------------------------------------
(***************************************************************************)
(* Properties of the StreamingTTSManager                                   *)
(***************************************************************************)
DeliveredIdx == 1..Len(tts.delivered)

WasDelivered(s, i) ==
    \E d \in DeliveredIdx : tts.delivered[d].s = s /\ tts.delivered[d].i = i

\* C1: the chunks of every stream reach a playback target in strictly
\* increasing chunk index, whatever the order in which synthesize() settles.
C1_PlayOrderIsEnqueueOrder ==
    \A a, b \in DeliveredIdx :
        (a < b /\ tts.delivered[a].s = tts.delivered[b].s)
            => tts.delivered[a].i < tts.delivered[b].i

\* C3: a failed synthesize() is local to its chunk: once the loop of a stream
\* that was neither stopped nor skipped has ended, every chunk of the stream
\* whose synthesis succeeded has been delivered.
C3_SynthFailureIsChunkLocal ==
    \A s \in Streams :
        (tts.pc[s] = "done" /\ s \notin tts.stopped /\ s \notin tts.skipped)
            => \A i \in ChunkIdx :
                  (i < tts.n[s] /\ tts.synth[s][i] = "settled"
                     /\ tts.audioBuffer[s][i]) => WasDelivered(s, i)

\* C7: no chunk of a stopped stream is delivered after the stop, and no
\* loop advances the play cursor of a stream it was not started for.
C7_StoppedStreamIsDiscarded ==
    /\ \A d \in DeliveredIdx : ~tts.delivered[d].late
    /\ ~tts.staleAdvance

(***************************************************************************)
(* VoiceBridgeServer: voice resolution of permissions, pairing             *)
(***************************************************************************)
Lower(transcript) == Trim(ToLowerCase(transcript))

VoiceHandled == bridge.last.op = "audio" /\ bridge.last.status = 200

ApprovedCalls(ids) ==
    [i \in 1..Len(ids) |-> [id |-> ids[i], approved |-> TRUE, alwaysAllow |-> FALSE]]

\* C8: an "allow all" transcript processed with k >= 1 permissions queued
\* reports every queued id as approved, alwaysAllow false, each once and in
\* queue order, and leaves the queue empty.
C8_AllowAllResolvesEveryPending ==
    (VoiceHandled
        /\ SomeIncluded(Lower(bridge.last.transcript), allowAllPhrases)
        /\ Len(bridge.last.queue) >= 1)
      => /\ bridge.last.calls = ApprovedCalls(bridge.last.queue)
         /\ bridge.pendingPermissions = <<>>
         /\ ~bridge.last.forwarded

C8_Witness ==
    /\ VoiceHandled
    /\ SomeIncluded(Lower(bridge.last.transcript), allowAllPhrases)
    /\ Len(bridge.last.queue) = MaxPermissions
    /\ Len(bridge.last.calls) = MaxPermissions

\* Both the approval and the denial vocabulary match, or neither does
Ambiguous(transcript) ==
    SomeIncluded(Lower(transcript), approvalPhrases)
        = SomeIncluded(Lower(transcript), denialPhrases)

BatchPhrased(transcript) ==
    SomeIncluded(Lower(transcript),
                 allowAllPhrases \cup denyAllPhrases \cup alwaysAllowPhrases)

NotAPermissionResponse ==
    /\ bridge.last.calls = <<>>
    /\ bridge.pendingPermissions = bridge.last.queue
    /\ bridge.last.forwarded

\* C9 as claimed: a transcript matching both the approval and the denial
\* vocabulary, or neither, resolves no queued permission and is forwarded.
C9_AmbiguousIsForwarded ==
    (VoiceHandled /\ Ambiguous(bridge.last.transcript))
      => NotAPermissionResponse

\* C9 as amended: such a transcript resolves nothing and is forwarded when it
\* holds no allow-all, deny-all or always-allow phrase.
C9_AmbiguousUnbatchedIsForwarded ==
    (VoiceHandled /\ Ambiguous(bridge.last.transcript)
        /\ ~BatchPhrased(bridge.last.transcript))
      => NotAPermissionResponse

C9_Witness ==
    /\ VoiceHandled
    /\ bridge.last.transcript = "maybe okay no"
    /\ Len(bridge.last.queue) >= 1
    /\ bridge.last.forwarded

\* C10 as claimed: connect(code) for a session already connected with that
\* code does not pair again and returns no token.
C10_CodeIsSingleUse ==
    (bridge.last.op = "connect" /\ bridge.last.reconnect)
      => (bridge.last.status # 200 /\ bridge.last.token = 0)

\* C10 as amended: connect(code) for a session already connected with that
\* code succeeds again: it returns the session's own token, leaves the session
\* connected and refreshes its lastActivity.
C10_CodeReconnects ==
    (bridge.last.op = "connect" /\ bridge.last.reconnect)
      => /\ bridge.last.status = 200
         /\ HasSession(bridge, bridge.last.code)
         /\ bridge.last.token = bridge.sessions[bridge.last.code].token
         /\ bridge.sessions[bridge.last.code].connected
         /\ bridge.sessions[bridge.last.code].lastActivity = bridge.now

C10_Witness ==
    /\ bridge.last.op = "connect"
    /\ bridge.last.reconnect
    /\ bridge.last.status = 200
    /\ bridge.last.token # 0
    /\ bridge.now > SESSION_TIMEOUT

(***************************************************************************)
(* VoiceBridgeServer: session expiry and request boundaries                *)
(***************************************************************************)
\* C11: a request that presents the token (or, for connect, the code) of a
\* connected session without activity for more than 30 minutes is rejected
\* with 401, and that session is registered no longer.
C11_IdleSessionIsRejected ==
    bridge.last.idle
      => (bridge.last.status = 401 /\ ~HasSession(bridge, bridge.last.code))

ConnectAnswered ==
    /\ bridge.last.op = "connect"
    /\ ~bridge.last.malformed
    /\ bridge.last.code # ""

\* C12 as claimed: connect(code) for a code whose session was never connected
\* and was created more than 5 minutes ago returns 410 whatever happened in
\* between, and connect with a code never issued returns 404.
C12_StaleCodeIsExpired ==
    ConnectAnswered
      => /\ bridge.last.stale => bridge.last.status = 410
         /\ bridge.last.code \notin bridge.issued => bridge.last.status = 404

\* C12 as amended: such a connect returns 410 and removes the session while
\* the session is still registered, and 404 once the session has been
\* removed; connect with a code never issued returns 404.
C12_StaleCodeIsExpiredOrGone ==
    ConnectAnswered
      => /\ (bridge.last.stale /\ bridge.last.known)
              => (bridge.last.status = 410
                    /\ ~HasSession(bridge, bridge.last.code))
         /\ (bridge.last.stale /\ ~bridge.last.known)
              => bridge.last.status = 404
         /\ bridge.last.code \notin bridge.issued => bridge.last.status = 404
         /\ bridge.last.stale => bridge.last.token = 0

C12_Witness ==
    /\ ConnectAnswered
    /\ bridge.last.stale
    /\ bridge.last.known
    /\ bridge.last.status = 410
    /\ bridge.swept # {}

\* C13: a request with an invalid token is answered 401 and a request with a
\* malformed payload 400, and neither changes a session field, the permission
\* queue or calls the assistant back.
C13_BoundaryFailureLeavesStateUntouched ==
    (bridge.last.malformed \/ bridge.last.status = 401)
      => /\ bridge.last.status = IF bridge.last.malformed THEN 400 ELSE 401
         /\ ~bridge.last.touched
         /\ bridge.last.calls = <<>>
         /\ ~bridge.last.forwarded
         /\ bridge.pendingPermissions = bridge.last.queue

(***************************************************************************)
(* AudioPlayer: completion                                                 *)
(***************************************************************************)
\* Every queued item is completed or cancelled and no timer or decoder of
\* the player is still running
Drained(p) ==
    /\ Len(p.queue) > 0
    /\ \A x \in 1..Len(p.queue) : p.status[p.queue[x]] \in {"completed", "cancelled"}
    /\ p.timers = {}
    /\ p.decoding = {}

\* C14: each time the last queued item has finished with nothing pending, the
\* state is 'idle' and onComplete has fired exactly once for that drain,
\* never zero times and never twice.
C14_CompletesOncePerDrain ==
    /\ player.drainFired <= 1
    /\ Drained(player) => (player.state = "idle" /\ player.drainFired = 1)

CalledIds == {bridge.last.calls[i].id : i \in 1..Len(bridge.last.calls)}

QueuedIds == {bridge.last.queue[i] : i \in 1..Len(bridge.last.queue)}

PendingIds ==
    {bridge.pendingPermissions[i] : i \in 1..Len(bridge.pendingPermissions)}

\* C16: a transcribed utterance is either consumed as a permission response
\* (at least one queued permission resolved, nothing forwarded) or forwarded
\* with onTranscript (no permission resolved), never both and never neither;
\* with an empty permission queue it is forwarded.
C16_ConsumedOrForwarded ==
    VoiceHandled
      => /\ bridge.last.forwarded
              => (bridge.last.calls = <<>>
                    /\ bridge.pendingPermissions = bridge.last.queue)
         /\ ~bridge.last.forwarded
              => (/\ Len(bridge.last.calls) >= 1
                  /\ CalledIds \subseteq QueuedIds
                  /\ PendingIds = QueuedIds \ CalledIds)
         /\ bridge.last.queue = <<>> => bridge.last.forwarded

C16_Witness ==
    /\ VoiceHandled
    /\ ~bridge.last.forwarded
    /\ Len(bridge.last.calls) = 1
    /\ Len(bridge.pendingPermissions) = 1

(***************************************************************************)
(* VoiceBridgeServer: voice matching priority                              *)
(***************************************************************************)
Call(id, approved, alwaysAllow) ==
    [id |-> id, approved |-> approved, alwaysAllow |-> alwaysAllow]

\* The calls of onPermissionResponse a transcript of the class owes, the ids
\* in queue being pending
CallsOwed(class, queue) ==
    CASE class = "allow all"    -> [i \in 1..Len(queue) |-> Call(queue[i], TRUE, FALSE)]
      [] class = "deny all"     -> [i \in 1..Len(queue) |-> Call(queue[i], FALSE, FALSE)]
      [] class = "always allow" -> <<Call(queue[1], TRUE, TRUE)>>
      [] class = "approval"     -> <<Call(queue[1], TRUE, FALSE)>>
      [] class = "denial"       -> <<Call(queue[1], FALSE, FALSE)>>
      [] OTHER                  -> <<>>

\* The first class of the priority order that has a phrase in the transcript
FirstClass(transcript) ==
    LET lower == Lower(transcript) IN
    IF SomeIncluded(lower, allowAllPhrases) THEN "allow all"
    ELSE IF SomeIncluded(lower, denyAllPhrases) THEN "deny all"
    ELSE IF SomeIncluded(lower, alwaysAllowPhrases) THEN "always allow"
    ELSE IF SomeIncluded(lower, approvalPhrases) THEN "approval"
    ELSE IF SomeIncluded(lower, denialPhrases) THEN "denial"
    ELSE "none"

\* The same, a transcript without batch or always-allow phrase that has both
\* an approval and a denial phrase being of no class
FirstClearClass(transcript) ==
    IF FirstClass(transcript) \in {"approval", "denial"}
          /\ Ambiguous(transcript)
    THEN "none"
    ELSE FirstClass(transcript)

VoiceHeardWithQueue == VoiceHandled /\ Len(bridge.last.queue) >= 1

\* C17 as claimed: a transcript is resolved as the first class that matches
\* in the order allow-all, deny-all, always-allow, plain approval, plain
\* denial: all queued ids for the batch classes, the head for the others.
C17_FirstMatchingClassDecides ==
    VoiceHeardWithQueue
      => bridge.last.calls
            = CallsOwed(FirstClass(bridge.last.transcript), bridge.last.queue)

\* C17 as amended: the same, except that a transcript reaching the plain
\* classes with both an approval and a denial phrase resolves nothing.
C17_FirstClearClassDecides ==
    VoiceHeardWithQueue
      => /\ bridge.last.calls
              = CallsOwed(FirstClearClass(bridge.last.transcript),
                          bridge.last.queue)
         /\ PendingIds = QueuedIds \ CalledIds

C17_Witness ==
    /\ VoiceHandled
    /\ bridge.last.transcript = "no"
    /\ Len(bridge.last.queue) = 1
    /\ bridge.last.calls = <<Call(bridge.last.queue[1], FALSE, FALSE)>>
    /\ bridge.pendingPermissions = <<>>

(***************************************************************************)
(* Properties of the MessageQueue                                          *)
(***************************************************************************)
MessagesWithStatus(status) ==
    { i \in 1..Len(messageQueue.queue) : messageQueue.queue[i].status = status }

\* C18: at most one message is 'processing', and processCallback is never
\* called while an earlier call of it has not settled.
C18_OneProcessingOneCall ==
    /\ Cardinality(MessagesWithStatus("processing")) <= 1
    /\ Len(messageQueue.calls) <= 1

\* A message is processing with another one waiting behind it while the
\* timer of an earlier completion is still to fire
C18_Witness ==
    /\ Len(messageQueue.calls) = 1
    /\ MessagesWithStatus("processing") # {}
    /\ MessagesWithStatus("queued") # {}
    /\ messageQueue.timers > 0

InvokedIds == { messageQueue.invoked[i].id : i \in 1..Len(messageQueue.invoked) }

InvokedInOrderAdded ==
    \A i, j \in 1..Len(messageQueue.invoked) :
        i < j => messageQueue.invoked[i].id < messageQueue.invoked[j].id

FailedAreCompleted ==
    \A i \in 1..Len(messageQueue.queue) :
        messageQueue.queue[i].id \in messageQueue.failed
            => messageQueue.queue[i].status = "completed"

\* C19: with every processCallback call settling, every message added is in
\* the end handed to processCallback unless it was removed while 'queued';
\* messages are handed over in the order added; a message whose call
\* rejected is 'completed', and the messages behind it are still processed.
C19_EveryMessageProcessedInOrder ==
    /\ [](InvokedInOrderAdded /\ FailedAreCompleted)
    /\ \A m \in 1..MaxMessages :
          (m < messageQueue.nextId)
             ~> (m \in InvokedIds \/ m \in messageQueue.removed)

\* A call rejected, and a message added later was processed after it
C19_Witness ==
    \E i, j \in 1..Len(messageQueue.invoked) :
        /\ i < j
        /\ messageQueue.invoked[i].id \in messageQueue.failed
        /\ \E k \in 1..Len(messageQueue.queue) :
              /\ messageQueue.queue[k].id = messageQueue.invoked[j].id
              /\ messageQueue.queue[k].status = "completed"

(***************************************************************************)
(* VoiceBridgeServer: the token of a registered session                    *)
(***************************************************************************)
\* The codes whose session is registered and is not one that the next
\* cleanupSessions() removes
LiveCodes(b) == { c \in DOMAIN b.sessions : ~IsExpired(b.sessions[c], b.now) }

\* C20: no step changes the token, or the creation time, stored under a code
\* whose session stays registered.
C20_TokenStaysWithCode ==
    [][\A c \in LiveCodes(bridge) \cap DOMAIN bridge'.sessions :
          /\ bridge'.sessions[c].token = bridge.sessions[c].token
          /\ bridge'.sessions[c].createdAt = bridge.sessions[c].createdAt]_vars

(***************************************************************************)
(* AudioPlayer: one active item, one write timer                           *)
(***************************************************************************)
ActiveStatuses == {"decoding", "ready", "playing", "paused"}

ActiveQueueItems ==
    { x \in 1..Len(player.queue) : player.status[player.queue[x]] \in ActiveStatuses }

\* C21: at most one item of the queue is decoding, ready, playing or paused,
\* and at most one setInterval timer of playItem() is live.
C21_SingleActiveItem ==
    /\ Cardinality(ActiveQueueItems) <= 1
    /\ Cardinality(player.timers) <= 1

(***************************************************************************)
(* VoiceBridgeServer: the permission queue and its events                  *)
(***************************************************************************)
\* C22: the permission of the latest permissionRequest event, while it is
\* unresolved, is the head of the queue, and the queue holds the unresolved
\* requests in the order they arrived.
C22_ShowingIsHead ==
    /\ bridge.showing \in PendingIds
          => bridge.pendingPermissions[1] = bridge.showing
    /\ \A i, j \in 1..Len(bridge.pendingPermissions) :
          i < j => bridge.pendingPermissions[i] < bridge.pendingPermissions[j]

\* Two requests wait, the first is the one shown, and its event went out on
\* the event stream of the current session
C22_Witness ==
    /\ Len(bridge.pendingPermissions) = 2
    /\ bridge.showing = bridge.pendingPermissions[1]
    /\ HasOpenResponse(bridge, bridge.currentSessionCode)
    /\ bridge.shows[bridge.showing] >= 1

\* A /permission request has just been answered 200
ButtonHandled == bridge.last.op = "permission" /\ bridge.last.status = 200

\* C23: a resolution puts a show of the head on a timer only if the id it
\* removed was the head, and no permission is shown more than once.
C23_ShowOnlyOnHeadChange ==
    /\ [](\A id \in 1..MaxPermissions : bridge.shows[id] <= 1)
    /\ [][(bridge'.last.op = "permission" /\ bridge'.last.status = 200
              /\ bridge'.showTimers > bridge.showTimers)
            => /\ bridge.pendingPermissions # <<>>
               /\ bridge'.last.calls[1].id = bridge.pendingPermissions[1]]_vars

SentEvents(event) ==
    { i \in 1..Len(bridge.last.events) : bridge.last.events[i].event = event }

\* sendPermissionRequest() has just queued a request
Enqueued ==
    /\ bridge.last.op = "sendPermissionRequest"
    /\ bridge.pendingPermissions # bridge.last.queue

SynthInFlight ==
    { it \in Streams \X ChunkIdx : tts.synth[it[1]][it[2]] = "inflight" }

\* C25: every chunk of the queue that is 'generating' has an index from the
\* play cursor to the play cursor + 2, and at most three synthesize() calls
\* are outstanding.
C25_LookAheadBound ==
    /\ \A i \in ChunkIdx :
          (tts.queue # 0 /\ i < QLen(tts)
              /\ tts.status[tts.queue][i] = "generating")
            => (tts.currentIndex <= i /\ i <= tts.currentIndex + 2)
    /\ Cardinality(SynthInFlight) <= 3

(***************************************************************************)
(* VoiceBridgeServer: the sweep of createSession()                         *)
(***************************************************************************)
PastPairingWindow(session, now) ==
    ~session.connected /\ now - session.createdAt > SESSION_CODE_EXPIRY

PastInactivityWindow(session, now) ==
    session.connected /\ now - session.lastActivity > SESSION_TIMEOUT

\* C26: when createSession() returns, no registered session is unconnected
\* and past the pairing window or connected and past the inactivity window,
\* the event stream of every inactive session it found has been ended, the
\* new session is registered unconnected under the returned code, and it is
\* the current session.
C26_SweepOnCreate ==
    [][bridge'.last.op = "createSession" =>
          LET code == bridge'.last.code IN
          /\ \A c \in DOMAIN bridge'.sessions :
                /\ ~PastPairingWindow(bridge'.sessions[c], bridge'.now)
                /\ ~PastInactivityWindow(bridge'.sessions[c], bridge'.now)
          /\ \A c \in DOMAIN bridge.sessions :
                (PastInactivityWindow(bridge.sessions[c], bridge.now)
                    /\ bridge.sessions[c].response # 0)
                  => bridge.sessions[c].response \in bridge'.ended
          /\ code \in DOMAIN bridge'.sessions
          /\ ~bridge'.sessions[code].connected
          /\ bridge'.sessions[code].token = bridge'.last.token
          /\ bridge'.sessions[code].createdAt = bridge'.now
          /\ bridge'.currentSessionCode = code]_vars

\* createSession() has removed a connected session that was inactive and
\* ended its event stream; only the new session is registered
C26_Witness ==
    /\ bridge.last.op = "createSession"
    /\ bridge.ended # {}
    /\ bridge.issued = Codes
    /\ DOMAIN bridge.sessions = {bridge.last.code}

(***************************************************************************)
(* VoiceBridgeServer: loss of the event stream                             *)
(***************************************************************************)
\* The session has had an event stream and its request is closed
StreamLost(b, c) ==
    /\ b.sessions[c].response # 0
    /\ ~\E stream \in b.streams : stream.id = b.sessions[c].response

\* C27: the close of an event stream changes no session, and a registered
\* session whose event stream is closed is connected and has its token
\* accepted by /audio, /permission and a new /events request.
C27_StreamLossKeepsSession ==
    /\ [](\A c \in DOMAIN bridge.sessions :
            StreamLost(bridge, c) =>
              LET token == bridge.sessions[c].token IN
              /\ bridge.sessions[c].connected
              /\ HandleAudioStart(bridge, token).last.op = "audioStart"
              /\ HandleAudioStart(bridge, token).last.code = c
              /\ HandlePermissionStart(bridge, token).last.op = "permissionStart"
              /\ HandleSSE(bridge, token).last.status = 200
              /\ HandleSSE(bridge, token).last.code = c)
    /\ [][Cardinality(bridge'.streams) < Cardinality(bridge.streams)
             => bridge'.sessions = bridge.sessions]_vars

\* An upload was accepted for a session after its event stream had closed
C27_Witness ==
    /\ bridge.last.op = "audioStart"
    /\ bridge.last.code \in DOMAIN bridge.sessions
    /\ StreamLost(bridge, bridge.last.code)

(***************************************************************************)
(* AudioPlayer: a failing item                                             *)
(***************************************************************************)
\* C28: an item whose decode threw or whose output stream did not open has
\* written no frame, is in a terminal status and is not decoded or played
\* again; the step in which it failed starts the first pending item of the
\* queue, if there is one.
C28_FailureIsItemLocal ==
    /\ [](\A k \in player.failed :
            /\ player.written[k] = 0
            /\ player.status[k] \in {"completed", "cancelled"}
            /\ k \notin player.decoding
            /\ k \notin player.timers
            /\ k \notin player.awaitingPlay)
    /\ [][(player'.failed # player.failed /\ PendingIdx(player) # {})
            => player.queue[FirstPending(player)] \in player'.decoding]_vars

\* The first item failed, the second one was decoded after it and has
\* written a frame
C28_Witness ==
    /\ 1 \in player.failed
    /\ player.status[1] = "completed"
    /\ 2 \notin player.failed
    /\ player.written[2] >= 1

(***************************************************************************)
(* AudioPlayer: the frames of an item                                      *)
(***************************************************************************)
\* ceil(L / B)
FramesOwed(L, B) == (L + B - 1) \div B

Min(a, b) == IF a <= b THEN a ELSE b

\* The frames written for item k are whole frames that hold its PCM from the
\* start on, without gap, the rest of the last one being padding
FramesInSequence(k) ==
    LET B == BytesPerFrame(player.channels[k])
        L == player.pcmLength[k]
    IN \A i \in 1..Len(player.frames[k]) :
          LET frame == player.frames[k][i] IN
          /\ frame.size = B
          /\ frame.start = (i - 1) * B
          /\ frame.copied = Min(B, L - frame.start)
          /\ frame.copied > 0

AllFramesWritten(k) ==
    Len(player.frames[k])
        = FramesOwed(player.pcmLength[k], BytesPerFrame(player.channels[k]))

\* C29: an item played to the end of its L bytes of PCM has had exactly
\* ceil(L / B) frames written, each of B bytes, which hold the PCM in order
\* followed by zero padding in the last frame; the play offset is never
\* beyond L.
C29_FrameSizing ==
    /\ \A k \in player.finished : AllFramesWritten(k) /\ FramesInSequence(k)
    /\ player.currentItem # 0
          => player.pcmOffset <= player.pcmLength[player.currentItem]

\* A two-channel item of one frame and two bytes has been played to its end:
\* two frames, the second holding the two bytes
C29_Witness ==
    \E k \in player.finished :
        /\ player.pcmLength[k] = BytesPerFrame(2) + 2
        /\ Len(player.frames[k]) = 2
        /\ player.frames[k][2].copied = 2
        /\ player.frames[k][2].size = BytesPerFrame(2)

\* C30: a frame written while muted or at volume 0 is a whole frame of
\* silence, any other frame is not; muting changes neither the number of
\* frames of an item nor the PCM positions they stand for; a change of mute
\* or volume changes no item status, not the player state, not the queue
\* and not the play position.
C30_MuteKeepsCadence ==
    /\ [](\A k \in Items : FramesInSequence(k))
    /\ [](\A k \in player.finished : AllFramesWritten(k))
    /\ [][\A k \in Items :
            player'.written[k] # player.written[k] =>
              LET frame == player'.frames[k][Len(player'.frames[k])] IN
              /\ player'.written[k] = player.written[k] + 1
              /\ Len(player'.frames[k]) = Len(player.frames[k]) + 1
              /\ frame.size = BytesPerFrame(player.channels[k])
              /\ (frame.content = "silence")
                    <=> (player.isMuted \/ player.volume = 0)]_vars
    /\ [][(player'.isMuted # player.isMuted \/ player'.volume # player.volume)
            => /\ player'.status = player.status
               /\ player'.state = player.state
               /\ player'.queue = player.queue
               /\ player'.currentItem = player.currentItem
               /\ player'.pcmOffset = player.pcmOffset
               /\ player'.timers = player.timers]_vars

\* An item was played to its end with the first frame audible and the second
\* one written as silence
C30_Witness ==
    \E k \in player.finished :
        /\ Len(player.frames[k]) = 2
        /\ player.frames[k][1].content = "pcm"
        /\ player.frames[k][2].content = "silence"

----------------------------------------------------------------------------
(***************************************************************************)
(* splitIntoSentences                                                      *)
(***************************************************************************)
RECURSIVE ConcatSentences(_)
ConcatSentences(chunks) ==
    IF chunks = <<>> THEN <<>>
    ELSE Head(chunks).sentences \o ConcatSentences(Tail(chunks))

\* The indices of the sentences of the text that are not empty, in order.
NonEmptySentences(text) ==
    SelectSeq([i \in 1..Len(text.raw) |-> i], LAMBDA i : text.raw[i] > 0)

\* The chunk is its sentences, whole, joined by single spaces.
WholeSentences(text, c) ==
    /\ Len(c.sentences) >= 1
    /\ c.length = SumLen([k \in 1..Len(c.sentences) |-> text.raw[c.sentences[k]]])
                  + (Len(c.sentences) - 1)

\* C31: for a text of at least 200 characters, every chunk but the last has
\* at least minChunkLength characters, every chunk is made of whole
\* sentences, and the chunks in order hold every non-empty sentence of the
\* text exactly once, in the order of the text.
C31_ChunkMinimumLength ==
    (chunker.called /\ TextLength(chunker.text) >= 200) =>
        /\ \A k \in 1..(Len(chunker.chunks) - 1) :
               chunker.chunks[k].length >= minChunkLength
        /\ \A k \in 1..Len(chunker.chunks) :
               WholeSentences(chunker.text, chunker.chunks[k])
        /\ SelectSeq(ConcatSentences(chunker.chunks),
                     LAMBDA i : chunker.text.raw[i] > 0)
           = NonEmptySentences(chunker.text)

\* A long text split into three chunks, the last one shorter than the minimum
\* and an earlier one made of several sentences.
C31_Witness ==
    /\ chunker.called
    /\ TextLength(chunker.text) >= 200
    /\ Len(chunker.chunks) >= 3
    /\ chunker.chunks[Len(chunker.chunks)].length < minChunkLength
    /\ \E k \in 1..(Len(chunker.chunks) - 1) : Len(chunker.chunks[k].sentences) >= 2

----------------------------------------------------------------------------
(***************************************************************************)
(* MessageQueue: clearQueue and removeMessage against the running message  *)
(***************************************************************************)
ProcessingMessages(q) ==
    { q.queue[i] : i \in { j \in 1..Len(q.queue) : q.queue[j].status = "processing" } }

QueueElements(q) == { q.queue[i] : i \in 1..Len(q.queue) }

\* C32: clearQueue() keeps the message that is 'processing' in the queue,
\* removeMessage(id) on its id changes nothing (it returns false), no step
\* removes or alters that message other than its handler settling, and the
\* settling leaves it in the queue as 'completed'.
C32_ProcessingMessageKept ==
    /\ [](\A m \in ProcessingMessages(messageQueue) :
              /\ m \in QueueElements(ClearQueue(messageQueue))
              /\ RemoveMessage(messageQueue, m.id) = messageQueue)
    /\ [][\A m \in ProcessingMessages(messageQueue) :
              /\ \/ m \in QueueElements(messageQueue')
                 \/ [m EXCEPT !.status = "completed"] \in QueueElements(messageQueue')
              /\ Len(messageQueue'.calls) < Len(messageQueue.calls) =>
                     [m EXCEPT !.status = "completed"] \in QueueElements(messageQueue')]_vars

\* The first message, 'processing' since it was added, is alone in the
\* queue after later messages were cleared or removed.
C32_Witness ==
    \E m \in ProcessingMessages(messageQueue) :
        /\ m.id = 1
        /\ Cardinality(messageQueue.removed) >= 2
        /\ Len(messageQueue.queue) = 1

----------------------------------------------------------------------------
(***************************************************************************)
(* resampleChannel: length of a round trip                                 *)
(***************************************************************************)
RoundTripDone == resampler.there # NotResampled /\ resampler.back # NotResampled

\* C33 as claimed: resampling from a to b and back from b to a yields a
\* length within 1 sample of the input length, for every length and every
\* pair of rates.
C33_RoundTripWithinOne ==
    RoundTripDone =>
        /\ resampler.inputLength - resampler.back <= 1
        /\ resampler.back - resampler.inputLength <= 1

\* C33, amended: the round trip never yields more samples than it was given;
\* when the first resampling does not lower the rate (a <= b) it yields the
\* input length or one sample less; when it lowers the rate (a > b) the loss
\* is below a/b + 1 samples.
C33_RoundTripLoss ==
    RoundTripDone =>
        /\ resampler.back <= resampler.inputLength
        /\ resampler.inputRate <= resampler.outputRate =>
               resampler.back >= resampler.inputLength - 1
        /\ resampler.inputRate > resampler.outputRate =>
               (resampler.inputLength - resampler.back) * resampler.outputRate
                   < resampler.inputRate + resampler.outputRate

\* An up-sampling round trip that loses one sample.
C33_Witness ==
    /\ RoundTripDone
    /\ resampler.inputRate < resampler.outputRate
    /\ resampler.inputLength > 0
    /\ resampler.back = resampler.inputLength - 1

----------------------------------------------------------------------------
(***************************************************************************)
(* StreamingTTSManager.onComplete against the AudioPlayer                  *)
(***************************************************************************)
\* Items of the player that are neither played to the end nor cancelled.
UnfinishedItems(p) ==
    { k \in 1..p.created : p.status[k] \in {"pending", "decoding", "playing", "paused"} }

\* C34: onComplete fires only after every chunk of the stream has finished
\* playing or been cancelled: no step fires it, and the manager is not
\* 'idle', while the player still has a chunk pending, decoding or playing.
C34_CompleteAfterPlayback ==
    /\ [](tts.state = "idle" => UnfinishedItems(player) = {})
    /\ [][tts'.onComplete > tts.onComplete => UnfinishedItems(player') = {}]_vars

----------------------------------------------------------------------------
(***************************************************************************)
(* Permission decisions and the ids they are reported for                  *)
(***************************************************************************)
\* C35: a decision is reported to the assistant only for an id that the
\* operation found in the pending queue and removed, and at most once per
\* id: a /permission request or a voice response for an id that is not
\* queued calls onPermissionResponse for nobody.
C35_DecisionOnlyForQueuedId ==
    /\ \A k \in 1..Len(bridge.last.calls) : bridge.last.calls[k].id \in QueuedIds
    /\ \A k, m \in 1..Len(bridge.last.calls) :
           bridge.last.calls[k].id = bridge.last.calls[m].id => k = m

\* C36: a transcript resolves the permission that was at the head of the
\* queue when its audio was submitted: if another permission has become the
\* head by the time the transcription completes, that new head is neither
\* approved nor denied by the transcript.
C36_VoiceAnswersSubmittedHead ==
    [][\A request \in bridge.audioRequests :
          (/\ request \notin bridge'.audioRequests
           /\ bridge'.last.op = "audio"
           /\ request.head # 0
           /\ bridge.pendingPermissions # <<>>
           /\ Head(bridge.pendingPermissions) # request.head)
          => \A k \in 1..Len(bridge'.last.calls) :
                 bridge'.last.calls[k].id # Head(bridge.pendingPermissions)]_vars

----------------------------------------------------------------------------
(***************************************************************************)
(* Delivery of the head permission to the current session                  *)
(***************************************************************************)
\* id is the head of the queue and the current session is connected.
HeadAwaitsSession(id) ==
    /\ bridge.pendingPermissions # <<>>
    /\ bridge.pendingPermissions[1] = id
    /\ bridge.currentSessionCode \in DOMAIN bridge.sessions
    /\ bridge.sessions[bridge.currentSessionCode].connected

\* C37: while the queue is non-empty and the current session is connected,
\* the head permission is eventually pushed to that session's client (or
\* stops being the head, or the session stops being the connected current
\* one).
C37_HeadEventuallyPushed ==
    \A id \in 1..MaxPermissions :
        HeadAwaitsSession(id) ~>
            \/ ~HeadAwaitsSession(id)
            \/ <<id, bridge.currentSessionCode>> \in bridge.pushed

\* C38: a /permission request or a voice transcript that comes with the
\* token of a connected session other than the current one resolves no
\* permission that was queued and shown for the current session.
C38_OnlyCurrentSessionAnswers ==
    (/\ bridge.last.op \in {"permission", "audio"}
     /\ bridge.last.status = 200
     /\ bridge.last.code # bridge.currentSessionCode)
    => \A k \in 1..Len(bridge.last.calls) :
           <<bridge.last.calls[k].id, bridge.currentSessionCode>> \notin bridge.pushed

----------------------------------------------------------------------------
(***************************************************************************)
(* AgentManager                                                            *)
(***************************************************************************)
DefaultAgents(am) == { i \in 1..Len(am.agents) : am.agents[i].isDefault }

\* C39: in every reachable state two consecutive calls of
\* getOrCreateDefaultAgent() return the same agent and the second creates
\* nothing, and whenever at least one agent exists exactly one agent has
\* isDefault = true.
C39_DefaultAgentIdempotent ==
    LET first == GetOrCreateDefaultAgent(agentManager)
        second == GetOrCreateDefaultAgent(first)
    IN /\ second.last.returned = first.last.returned
       /\ second.agents = first.agents
       /\ Len(agentManager.agents) >= 1 =>
              Cardinality(DefaultAgents(agentManager)) = 1

\* C40: from an empty store, whenever at least one agent exists
\* activeAgentId names an agent of the map; closeAgent() never removes the
\* only agent, and closing the active agent makes a remaining agent active.
C40_ActiveAgentExists ==
    /\ [](Len(agentManager.agents) >= 1 =>
              agentManager.activeAgentId \in IdsOf(agentManager.agents))
    /\ []((agentManager.last.op = "closeAgent" /\ agentManager.last.returned) =>
              /\ Len(agentManager.agents) >= 1
              /\ agentManager.last.activeBefore = agentManager.last.id =>
                     /\ agentManager.activeAgentId # agentManager.last.id
                     /\ agentManager.activeAgentId \in IdsOf(agentManager.agents))
    /\ [][(agentManager'.last.op = "closeAgent" /\ Len(agentManager.agents) = 1) =>
              agentManager'.agents = agentManager.agents]_vars

\* The active agent was closed with others remaining, and the first of them
\* is now the active one.
C40_Witness ==
    /\ agentManager.last.op = "closeAgent"
    /\ agentManager.last.returned
    /\ agentManager.last.activeBefore = agentManager.last.id
    /\ Len(agentManager.agents) >= 2
    /\ agentManager.activeAgentId = agentManager.agents[1].id
====
